---- MODULE Spec2Model ----
(***************************************************************************)
(* A model of src/src/tools/local_mcp_server.py: the retry-aware HTTP      *)
(* wrapper, the Notion property-schema probing of notion_query_eligible    *)
(* and notion_update_status, the capitalization-variant generator, the     *)
(* page-section upsert of notion_append_section, and the one- and two-call *)
(* tools http_fetch, tavily_search, notion_get_database and                *)
(* notion_update_database_schema, each run against a remote whose answers  *)
(* are chosen nondeterministically.                                        *)
(*                                                                         *)
(* One tool invocation runs at a time (the server is synchronous per       *)
(* call).  Times are integers: policy delays in milliseconds, slept        *)
(* delays in microseconds (milliseconds times a per-mille jitter factor).  *)
(* Texts are sequences of one-character strings, so that lower(), title()  *)
(* and strip() are computed character by character.                        *)
(***************************************************************************)
EXTENDS Integers, Sequences, FiniteSets, TLC

VARIABLES
    tool,         \* the tool being invoked
    pc,           \* position of the invocation in the tool's code
    token,        \* NOTION_MCP_TOKEN is set in the environment
    result,       \* the value the tool returned (kind "none" while running)
    ncalls,       \* calls of _request_with_retry (or of the client) made so far
    retried,      \* some call re-sent its request after a 429
    \* ---- _request_with_retry (lines 34-78)
    rr_pc,        \* "idle" | "loop" | "returned" | "raised"
    rr_err,       \* what was raised: "none" | "transport" | "sleep"
    attempt,      \* the local variable attempt
    max_retries,  \* the retry policy
    base_delay,   \* milliseconds
    max_delay,    \* milliseconds
    rr_resp,      \* the last response received
    rr_trace,     \* the requests, responses and sleeps of this call, in order
    \* ---- _alt_values (lines 240-253 and 348-359)
    av_val,       \* the argument val
    av_query,     \* what notion_query_eligible._alt_values returned (as a set)
    av_update,    \* what notion_update_status._alt_values returned (as a set)
    \* ---- notion_query_eligible, notion_update_status (lines 208-410)
    status_value,   \* the argument status_value
    property_type,  \* the argument property_type
    db_given,       \* database_id is passed or NOTION_DATABASE_ID is set
    attempts,       \* the (kind, value) attempts made so far, with their answers
    status_code,    \* the local status_code (resp.status_code)
    data,           \* the local data (body): the parsed body of the last answer
    todo,           \* the values the running for loop has not reached yet
    \* ---- tavily_search, notion_update_database_schema (lines 120-182, 437-540)
    tavily_key,            \* TAVILY_API_KEY is set in the environment
    ensure_status,         \* the argument ensure_status
    add_output_properties, \* the argument add_output_properties
    db_properties,         \* the remote database: its properties, name -> type
    \* ---- notion_append_section (lines 543-877)
    page,             \* the remote page: its direct children, in order
    next_id,          \* the id the remote gives to the next block it creates
    heading,          \* the argument heading
    heading_level,    \* the argument heading_level, as passed
    mode,             \* the argument mode
    find_existing,    \* the argument find_existing
    nblocks,          \* len(body_blocks): top-level blocks built from content
    after_block_id,   \* the local after_block_id (0 is None)
    created_heading,  \* the local created_heading
    all_children,     \* the local all_children of the replace listing
    next_cursor,      \* the local next_cursor (0 is None)
    delete_slice,     \* the blocks of delete_slice the loop has not reached yet
    batch_start,      \* the loop variable i of the batching loop
    resp_status,      \* resp.status_code of the last append call (0: none yet)
    log,              \* the remote requests of this invocation, in order
    page0,            \* the page as it was when the tool was invoked
    call_no,          \* 1 for the first invocation on the page, 2 for the next
    log1,             \* the remote requests of the first invocation, once over
    \* ---- _rt and the block-tree builder, taken alone (lines 575-725)
    rt_pieces,        \* the spans and plain runs the text is made of
    rt_text,          \* the argument text of _rt
    rt_out,           \* what _rt returned
    bt_items,         \* the items and paragraph lines the content is made of
    bt_lines,         \* (content or "").splitlines()
    detect_lists,     \* the argument detect_lists
    bt_out,           \* the blocks built from the lines
    sanitized,        \* the local sanitized (line 848) for these blocks
    \* ---- two invocations of notion_append_section at once (lines 727-756)
    cc_pages,         \* the remote: the direct children of each page
    cc_page_id,       \* the argument page_id of each invocation
    cc_pc,            \* the position of each invocation
    cc_after,         \* the local after_block_id of each invocation (0 is None)
    cc_created,       \* the local created_heading of each invocation
    cc_next_id,       \* the id the remote gives to the next block it creates
    cc_arrivals       \* the remote calls of both invocations, as they arrived

commonVars == <<tool, pc, token, result, ncalls, retried>>
retryVars  == <<rr_pc, rr_err, attempt, max_retries, base_delay, max_delay, rr_resp, rr_trace>>
altVars    == <<av_val, av_query, av_update>>
probeVars  == <<status_value, property_type, db_given, attempts, status_code, data, todo>>
miscVars   == <<tavily_key, ensure_status, add_output_properties, db_properties>>
appendVars == <<page, next_id, heading, heading_level, mode, find_existing, nblocks,
                after_block_id, created_heading, all_children, next_cursor,
                delete_slice, batch_start, resp_status, log, page0, call_no, log1>>
pureVars   == <<rt_pieces, rt_text, rt_out, bt_items, bt_lines, detect_lists, bt_out,
                sanitized>>
raceVars   == <<cc_pages, cc_page_id, cc_pc, cc_after, cc_created, cc_next_id, cc_arrivals>>
vars       == <<commonVars, retryVars, altVars, probeVars, miscVars, appendVars, pureVars,
                raceVars>>

(***************************************************************************)
(* Bounds of the model.                                                    *)
(***************************************************************************)
MaxRetries == 2

\* The most listing calls of one invocation that the remote answers with
\* has_more and no next_cursor; it answers so only for a page whose children
\* fit in one listing.
MaxListCalls == 3

(***************************************************************************)
(* Texts.                                                                  *)
(***************************************************************************)
LowerChars == <<"a","b","c","d","e","g","i","k","l","n","o","p","r","s","t","u">>
UpperChars == <<"A","B","C","D","E","G","I","K","L","N","O","P","R","S","T","U">>

IsLowerCh(c) == \E i \in DOMAIN LowerChars : LowerChars[i] = c
IsUpperCh(c) == \E i \in DOMAIN UpperChars : UpperChars[i] = c
IsCased(c)   == IsLowerCh(c) \/ IsUpperCh(c)

\* str.lower() on one character
LowerCh(c) ==
    IF IsUpperCh(c)
    THEN LowerChars[CHOOSE i \in DOMAIN UpperChars : UpperChars[i] = c]
    ELSE c

\* str.upper() on one character
UpperCh(c) ==
    IF IsLowerCh(c)
    THEN UpperChars[CHOOSE i \in DOMAIN LowerChars : LowerChars[i] = c]
    ELSE c

\* str.lower()
Lower(s) == [i \in DOMAIN s |-> LowerCh(s[i])]

\* str.title(): a cased character is upper-cased when the character before
\* it is not cased (or there is none), lower-cased otherwise.
Title(s) ==
    [i \in DOMAIN s |->
        IF i > 1 /\ IsCased(s[i-1]) THEN LowerCh(s[i]) ELSE UpperCh(s[i])]

\* Every capitalization of a text.
Capitalizations(p) ==
    { [i \in DOMAIN p |-> IF i \in S THEN UpperCh(p[i]) ELSE p[i]] :
        S \in SUBSET (DOMAIN p) }

S_not_started == <<"n","o","t"," ","s","t","a","r","t","e","d">>
S_Not_started == <<"N","o","t"," ","s","t","a","r","t","e","d">>
S_Not_Started == <<"N","o","t"," ","S","t","a","r","t","e","d">>
S_in_progress == <<"i","n"," ","p","r","o","g","r","e","s","s">>
S_In_progress == <<"I","n"," ","p","r","o","g","r","e","s","s">>
S_In_Progress == <<"I","n"," ","P","r","o","g","r","e","s","s">>
S_done        == <<"d","o","n","e">>
S_Done        == <<"D","o","n","e">>
S_blocked     == <<"b","l","o","c","k","e","d">>
S_Blocked     == <<"B","l","o","c","k","e","d">>
S_to_do       == <<"t","o"," ","d","o">>
S_To_Do       == <<"T","o"," ","D","o">>

(***************************************************************************)
(* _alt_values: the two copies.                                            *)
(***************************************************************************)
AltValuesUpdate_Capitalize(val) ==
    {val} \cup
    IF Lower(val) = S_not_started THEN {S_Not_started}
    ELSE IF Lower(val) = S_in_progress THEN {S_In_progress}
    ELSE IF Lower(val) = S_done THEN {S_Done}
    ELSE {Title(val)}

\* notion_query_eligible._alt_values (lines 240-253); list(alts) has the
\* set's iteration order, so the result is kept as a set.
AltValuesQuery(val) ==
    {val} \cup
    IF Lower(val) = S_not_started THEN {S_Not_started, S_Not_Started}
    ELSE IF Lower(val) = S_in_progress THEN {S_In_progress, S_In_Progress}
    ELSE IF Lower(val) = S_done THEN {S_Done}
    ELSE {Title(val)}

\* notion_update_status._alt_values (lines 348-359).
AltValuesUpdate(val) ==
    {val} \cup
    IF Lower(val) = S_not_started THEN {S_Not_started, S_Not_Started}
    ELSE IF Lower(val) = S_in_progress THEN {S_In_progress, S_In_Progress}
    ELSE IF Lower(val) = S_done THEN {S_Done}
    ELSE {Title(val)}

\* The values _alt_values is applied to: every capitalization of the three
\* phrases, and other values.
OtherValues ==
    Capitalizations(S_to_do) \cup
    { S_blocked, S_Blocked, <<>>, <<" ","d","o","n","e">>,
      <<"d","o","n","e","s">>, <<"n","o","t","s","t","a","r","t","e","d">> }

AltInputs ==
    Capitalizations(S_not_started) \cup Capitalizations(S_in_progress)
        \cup Capitalizations(S_done) \cup OtherValues

CallAltQuery ==
    /\ tool = "_alt_values" /\ av_query = {}
    /\ av_query' = AltValuesQuery(av_val)
    /\ UNCHANGED <<av_val, av_update, commonVars, retryVars, probeVars, pureVars, raceVars, miscVars, appendVars>>

CallAltUpdate ==
    /\ tool = "_alt_values" /\ av_update = {}
    /\ av_update' = AltValuesUpdate(av_val)
    /\ UNCHANGED <<av_val, av_query, commonVars, retryVars, probeVars, pureVars, raceVars, miscVars, appendVars>>

(***************************************************************************)
(* Responses of the remote.                                                *)
(***************************************************************************)
NoHeader == [present |-> FALSE, value |-> <<>>]
Header(v) == [present |-> TRUE, value |-> v]

\* The Retry-After header of a 429: absent, empty, "2", "0", a date-like
\* text that is no number, and a negative number.
RetryAfterValues ==
    { NoHeader, Header(<<>>), Header(<<"2">>), Header(<<"0">>),
      Header(<<"a","b","c">>), Header(<<"-","1">>) }

Statuses == {200, 404, 429}
BodyKinds == {"json", "text"}

Responses ==
    { [status |-> s, body |-> b, retry_after |-> h] :
        s \in Statuses, b \in BodyKinds, h \in RetryAfterValues }

\* A server sends Retry-After with a 429 only.
ServerResponses ==
    { r \in Responses :
        /\ (r.status # 429 => r.retry_after = NoHeader)
        /\ (r.status = 429 => r.body = "json") }

NoResponse == [status |-> 0, body |-> "json", retry_after |-> NoHeader]

NoResult == [kind |-> "none"]

\* _notion_headers (lines 192-205): the names of the headers it builds.
NotionHeaders_WithoutToken(tok) ==
    IF ~tok THEN {"Notion-Version", "Content-Type"}
    ELSE {"Authorization", "Notion-Version", "Content-Type"}

NotionHeaders(tok) ==
    IF ~tok THEN {} ELSE {"Authorization", "Notion-Version", "Content-Type"}

\* The structured failure every Notion tool returns without a credential.
TokenError ==
    [kind |-> "error", success |-> FALSE,
     error |-> "NOTION_MCP_TOKEN not set in environment"]

(***************************************************************************)
(* _request_with_retry.                                                    *)
(***************************************************************************)
DefaultBaseDelay == 600
DefaultMaxDelay  == 8000

Digits == <<"0","1","2","3","4","5","6","7","8","9">>
IsDigit(c) == \E i \in DOMAIN Digits : Digits[i] = c
DigitVal(c) == (CHOOSE i \in DOMAIN Digits : Digits[i] = c) - 1

RECURSIVE DecVal(_)
DecVal(s) ==
    IF s = <<>> THEN 0
    ELSE 10 * DecVal(SubSeq(s, 1, Len(s) - 1)) + DigitVal(s[Len(s)])

\* float(retry_after) succeeds: an optional sign and at least one digit.
Parses(s) ==
    LET body == IF s # <<>> /\ s[1] = "-" THEN Tail(s) ELSE s
    IN  body # <<>> /\ \A i \in DOMAIN body : IsDigit(body[i])

\* float(retry_after), in microseconds.
ParseMicros(s) ==
    IF s[1] = "-" THEN 0 - 1000000 * DecVal(Tail(s)) ELSE 1000000 * DecVal(s)

\* random.random() in [0, 1), in per-mille; 0.8 + 0.4 * r is then
\* (800 + 2 r / 5) per-mille, exact for the multiples of 5 drawn here.
JitterSamples == {0, 250, 500, 995}

RECURSIVE Pow2(_)
Pow2(n) == IF n = 0 THEN 1 ELSE 2 * Pow2(n - 1)

Min(a, b) == IF a <= b THEN a ELSE b
Max(a, b) == IF a >= b THEN a ELSE b

BackoffMicros_Uncapped(att, base, maxd, r) ==
    base * Pow2(att) * (800 + (2 * r) \div 5)

BackoffMicros_CapDoubled(att, base, maxd, r) ==
    Min(2 * maxd, base * Pow2(att)) * (800 + (2 * r) \div 5)

\* Lines 73-76: min(max_delay, base_delay * 2 ** attempt), then the jitter.
BackoffMicros(att, base, maxd, r) ==
    Min(maxd, base * Pow2(att)) * (800 + (2 * r) \div 5)

Delay_JitterOnHeader(resp, att, base, maxd, r) ==
    IF resp.retry_after.present /\ resp.retry_after.value # <<>>
    THEN IF Parses(resp.retry_after.value)
         THEN [d |-> (ParseMicros(resp.retry_after.value) \div 1000) * (800 + (2 * r) \div 5),
               src |-> "header"]
         ELSE [d |-> base * 1000, src |-> "fallback"]
    ELSE [d |-> BackoffMicros(att, base, maxd, r), src |-> "backoff"]

\* Lines 67-76: the delay and the branch that computed it.
\* `if retry_after:` is false for an absent header and for an empty one.
Delay(resp, att, base, maxd, r) ==
    IF resp.retry_after.present /\ resp.retry_after.value # <<>>
    THEN IF Parses(resp.retry_after.value)
         THEN [d |-> ParseMicros(resp.retry_after.value), src |-> "header"]
         ELSE [d |-> base * 1000, src |-> "fallback"]
    ELSE [d |-> BackoffMicros(att, base, maxd, r), src |-> "backoff"]

ReturnsNow_RetryNon200(resp, att, maxr) == resp.status = 200 \/ att >= maxr

\* Line 64: the response is returned to the caller.
ReturnsNow(resp, att, maxr) == resp.status # 429 \/ att >= maxr

Ev(e, r, d, src) == [ev |-> e, resp |-> r, d |-> d, src |-> src]
EvRequest == Ev("request", NoResponse, 0, "-")
EvResponse(r) == Ev("response", r, 0, "-")
EvSleep(dl) == Ev("sleep", NoResponse, dl.d, dl.src)

\* One iteration of the loop of lines 62-78: the request, then the return,
\* or the sleep and the increment.  client.request may raise (a transport
\* failure); time.sleep raises ValueError on a negative delay.
RRStep ==
    /\ rr_pc = "loop"
    /\ \/ /\ rr_pc' = "raised"
          /\ rr_err' = "transport"
          /\ rr_trace' = Append(rr_trace, EvRequest)
          /\ UNCHANGED <<attempt, rr_resp, retried>>
       \/ \E r \in ServerResponses, j \in JitterSamples :
            LET dl == Delay(r, attempt, base_delay, max_delay, j)
                got == rr_trace \o <<EvRequest, EvResponse(r)>>
            IN  /\ rr_resp' = r
                /\ IF ReturnsNow(r, attempt, max_retries)
                   THEN /\ rr_pc' = "returned"
                        /\ rr_trace' = got
                        /\ UNCHANGED <<attempt, rr_err, retried>>
                   ELSE IF dl.d < 0
                   THEN /\ rr_pc' = "raised"
                        /\ rr_err' = "sleep"
                        /\ rr_trace' = got
                        /\ UNCHANGED <<attempt, retried>>
                   ELSE /\ rr_trace' = Append(got, EvSleep(dl))
                        /\ attempt' = attempt + 1
                        /\ retried' = TRUE
                        /\ UNCHANGED <<rr_pc, rr_err>>
    /\ UNCHANGED <<tool, pc, token, result, ncalls, max_retries, base_delay, max_delay>>
    /\ UNCHANGED <<altVars, pureVars, raceVars, probeVars, miscVars, appendVars>>

(***************************************************************************)
(* notion_get_database (lines 413-434).                                    *)
(***************************************************************************)
\* resp.json() with the fallback {"raw": resp.text}
BodyOf(resp) == IF resp.body = "json" THEN "json" ELSE "raw"

\* Lines 434, 410, 540: {"success": status == 200, "status": ..., "data": ...}
ToolResult(resp) ==
    [kind |-> "result", success |-> (resp.status = 200),
     status |-> resp.status, data |-> BodyOf(resp)]

GetDbStart ==
    /\ tool = "notion_get_database" /\ pc = "start"
    /\ IF NotionHeaders(token) = {}
       THEN /\ result' = TokenError
            /\ pc' = "done"
            /\ UNCHANGED <<ncalls, rr_pc, attempt, rr_trace>>
       ELSE /\ pc' = "call"
            /\ ncalls' = ncalls + 1
            /\ rr_pc' = "loop"
            /\ attempt' = 0
            /\ rr_trace' = <<>>
            /\ UNCHANGED result
    /\ UNCHANGED <<tool, token, retried, rr_err, max_retries, base_delay, max_delay, rr_resp>>
    /\ UNCHANGED <<altVars, pureVars, raceVars, probeVars, miscVars, appendVars>>

GetDbFinish ==
    /\ tool = "notion_get_database" /\ pc = "call"
    /\ \/ /\ rr_pc = "returned"
          /\ result' = ToolResult(rr_resp)
          /\ pc' = "done"
       \/ /\ rr_pc = "raised"
          /\ pc' = "raised"
          /\ UNCHANGED result
    /\ UNCHANGED <<tool, token, ncalls, retried, retryVars, altVars, pureVars, raceVars, probeVars, miscVars, appendVars>>

(***************************************************************************)
(* A call of _request_with_retry taken as one step: what it gives back.    *)
(* By lines 62-78 this is the answer to its last request, or an exception  *)
(* of client.request or time.sleep; `retried` tells whether a 429 was      *)
(* answered by a re-send before.                                           *)
(***************************************************************************)
Outcome(st, js, n, rt) ==
    [raised |-> FALSE, status |-> st, json |-> js, rows |-> n, retried |-> rt]

RaisedOutcome ==
    [raised |-> TRUE, status |-> 0, json |-> FALSE, rows |-> 0, retried |-> FALSE]

\* The answers to a database query: 200 with one row, 200 with no row, a
\* JSON error, an error page that is no JSON; or an exception.
QueryOutcomes ==
    { Outcome(200, TRUE, 1, rt) : rt \in BOOLEAN }
        \cup { Outcome(200, TRUE, 0, FALSE), Outcome(400, TRUE, 0, FALSE),
               Outcome(502, FALSE, 0, FALSE), RaisedOutcome }

\* The answers to a page update.
UpdateOutcomes ==
    { Outcome(200, TRUE, 0, rt) : rt \in BOOLEAN }
        \cup { Outcome(400, TRUE, 0, FALSE), Outcome(502, FALSE, 0, FALSE),
               RaisedOutcome }

Parsed_First(o, n) == [id |-> 1, raw |-> ~o.json, rows |-> IF o.json THEN o.rows ELSE 0]

\* resp.json() with the fallback {"raw": resp.text}; id tells which answer
\* the body belongs to; rows is len(data.get("results") or []).
Parsed(o, n) == [id |-> n, raw |-> ~o.json, rows |-> IF o.json THEN o.rows ELSE 0]

(***************************************************************************)
(* notion_query_eligible and notion_update_status: the probing.            *)
(***************************************************************************)
PT_select == <<"s","e","l","e","c","t">>
PT_Select == <<"S","e","l","e","c","t">>
PT_status == <<"s","t","a","t","u","s">>

\* Lines 276 and 372.
PreferredKey(pt) == IF Lower(pt) = PT_select THEN "select" ELSE "status"

\* Lines 277 and 373.
FallbackKey(pt) == IF PreferredKey(pt) = "select" THEN "status" ELSE "select"

\* One attempt: phase 1 is line 280 (376), 2 is line 283 (384), 3 is the
\* loop of lines 286-289 (392-399), 4 the loop of lines 291-294 (401-408).
AttemptRec(phase, key, v, o) ==
    [phase |-> phase, key |-> key, value |-> v, status |-> o.status,
     rows |-> IF o.json THEN o.rows ELSE 0]

Goto(p, t) == [pc |-> p, todo |-> t]

QueryNext_NoBreak(phase, st, dt, rest) ==
    LET empty200 == st = 200 /\ dt.rows = 0
        alts     == AltValuesQuery(status_value)
        line284  == IF empty200 THEN Goto("q_loop_pref", alts) ELSE Goto("finish", {})
        line290  == IF empty200 THEN Goto("q_loop_fallback", alts) ELSE Goto("finish", {})
    IN  CASE phase = 1 -> IF st # 200 THEN Goto("q_fallback", {}) ELSE line284
          [] phase = 2 -> line284
          [] phase = 3 -> IF rest = {} THEN line290 ELSE Goto("q_loop_pref", rest)
          [] phase = 4 -> IF rest = {} THEN Goto("finish", {})
                          ELSE Goto("q_loop_fallback", rest)

\* Where notion_query_eligible goes after an attempt (lines 281-294).
QueryNext(phase, st, dt, rest) ==
    LET empty200 == st = 200 /\ dt.rows = 0
        hit      == st = 200 /\ dt.rows > 0
        alts     == AltValuesQuery(status_value)
        line284  == IF empty200 THEN Goto("q_loop_pref", alts) ELSE Goto("finish", {})
        line290  == IF empty200 THEN Goto("q_loop_fallback", alts) ELSE Goto("finish", {})
    IN  CASE phase = 1 -> IF st # 200 THEN Goto("q_fallback", {}) ELSE line284
          [] phase = 2 -> line284
          [] phase = 3 -> IF hit \/ rest = {} THEN line290 ELSE Goto("q_loop_pref", rest)
          [] phase = 4 -> IF hit \/ rest = {} THEN Goto("finish", {})
                          ELSE Goto("q_loop_fallback", rest)

UpdateNext_Interleaved(phase, st, rest) ==
    LET alts == AltValuesUpdate(status_value)
    IN  CASE phase = 1 -> IF st # 200 THEN Goto("u_fallback", {}) ELSE Goto("finish", {})
          [] phase = 2 -> IF st # 200 THEN Goto("u_loop_pref", alts) ELSE Goto("finish", {})
          [] phase = 3 -> IF st = 200 THEN Goto("finish", {})
                          ELSE Goto("u_loop_fallback", IF rest = {} THEN alts ELSE rest)
          [] phase = 4 -> IF st = 200 \/ rest = {} THEN Goto("finish", {})
                          ELSE Goto("u_loop_pref", rest)

\* Where notion_update_status goes after an attempt (lines 382-408).
UpdateNext(phase, st, rest) ==
    LET alts == AltValuesUpdate(status_value)
    IN  CASE phase = 1 -> IF st # 200 THEN Goto("u_fallback", {}) ELSE Goto("finish", {})
          [] phase = 2 -> IF st # 200 THEN Goto("u_loop_pref", alts) ELSE Goto("finish", {})
          [] phase = 3 -> IF st = 200 THEN Goto("finish", {})
                          ELSE IF rest = {} THEN Goto("u_loop_fallback", alts)
                          ELSE Goto("u_loop_pref", rest)
          [] phase = 4 -> IF st = 200 \/ rest = {} THEN Goto("finish", {})
                          ELSE Goto("u_loop_fallback", rest)

\* Lines 319-323: the debug entry of an empty success, the inputs as given
\* (absent otherwise).
DebugInfo(st, dt) ==
    IF st = 200 /\ dt.rows = 0
    THEN [present |-> TRUE,
          tried_property_type_preference |->
              Lower(IF property_type = <<>> THEN PT_select ELSE property_type),
          status_value |-> status_value]
    ELSE [present |-> FALSE, tried_property_type_preference |-> <<>>,
          status_value |-> <<>>]

\* Lines 296-324.
QueryResult(st, dt) ==
    [kind |-> "result", success |-> (st = 200), status |-> st,
     count |-> dt.rows, payload |-> dt, notion_error |-> (st # 200),
     debug |-> DebugInfo(st, dt)]

\* Line 410.
UpdateResult(st, dt) ==
    [kind |-> "result", success |-> (st = 200), status |-> st, data |-> dt]

\* list(alts) of the second loop: both calls of _alt_values build the same
\* set in the same way, so the second loop meets the values in the order in
\* which the first loop met them; this is the next one.
NextInOrder ==
    LET IsP3(a) == a.phase = 3
        IsP4(a) == a.phase = 4
    IN  SelectSeq(attempts, IsP3)[Len(SelectSeq(attempts, IsP4)) + 1].value

\* Lines 227-238.
QueryStart ==
    /\ tool = "notion_query_eligible" /\ pc = "start"
    /\ IF NotionHeaders(token) = {}
       THEN result' = TokenError /\ pc' = "done"
       ELSE IF ~db_given
       THEN /\ result' = [kind |-> "error", success |-> FALSE,
                          error |-> "database_id not provided and NOTION_DATABASE_ID not set in environment"]
            /\ pc' = "done"
       ELSE pc' = "q_pref" /\ UNCHANGED result
    /\ UNCHANGED <<tool, token, ncalls, retried, retryVars, altVars, pureVars, raceVars, probeVars, miscVars, appendVars>>

\* One call of _try_query (lines 266-273) and the control flow after it.
QueryDo(phase, key, v, rest, o) ==
    IF o.raised
    THEN /\ pc' = "raised"
         /\ ncalls' = ncalls + 1
         /\ UNCHANGED <<result, retried, attempts, status_code, data, todo>>
    ELSE LET dt == Parsed(o, Len(attempts) + 1)
             nx == QueryNext(phase, o.status, dt, rest)
         IN  /\ ncalls' = ncalls + 1
             /\ retried' = (retried \/ o.retried)
             /\ attempts' = Append(attempts, AttemptRec(phase, key, v, o))
             /\ status_code' = o.status
             /\ data' = dt
             /\ todo' = nx.todo
             /\ IF nx.pc = "finish"
                THEN pc' = "done" /\ result' = QueryResult(o.status, dt)
                ELSE pc' = nx.pc /\ UNCHANGED result

\* Line 280.
QueryPreferred ==
    /\ tool = "notion_query_eligible" /\ pc = "q_pref"
    /\ \E o \in QueryOutcomes :
        QueryDo(1, PreferredKey(property_type), status_value, {}, o)
    /\ UNCHANGED <<tool, token, retryVars, altVars, pureVars, raceVars, status_value, property_type, db_given, miscVars, appendVars>>

\* Line 283.
QueryFallback ==
    /\ tool = "notion_query_eligible" /\ pc = "q_fallback"
    /\ \E o \in QueryOutcomes :
        QueryDo(2, FallbackKey(property_type), status_value, {}, o)
    /\ UNCHANGED <<tool, token, retryVars, altVars, pureVars, raceVars, status_value, property_type, db_given, miscVars, appendVars>>

\* Lines 286-289: one iteration; the iteration order of list(alts) is that
\* of a set, so the value is any one the loop has not reached yet.
QueryVariantsPreferred ==
    /\ tool = "notion_query_eligible" /\ pc = "q_loop_pref"
    /\ \E v \in todo, o \in QueryOutcomes :
        QueryDo(3, PreferredKey(property_type), v, todo \ {v}, o)
    /\ UNCHANGED <<tool, token, retryVars, altVars, pureVars, raceVars, status_value, property_type, db_given, miscVars, appendVars>>

\* Lines 291-294.
QueryVariantsFallback ==
    /\ tool = "notion_query_eligible" /\ pc = "q_loop_fallback"
    /\ \E o \in QueryOutcomes :
        QueryDo(4, FallbackKey(property_type), NextInOrder, todo \ {NextInOrder}, o)
    /\ UNCHANGED <<tool, token, retryVars, altVars, pureVars, raceVars, status_value, property_type, db_given, miscVars, appendVars>>

\* Lines 344-346.
UpdateStart ==
    /\ tool = "notion_update_status" /\ pc = "start"
    /\ IF NotionHeaders(token) = {}
       THEN result' = TokenError /\ pc' = "done"
       ELSE pc' = "u_pref" /\ UNCHANGED result
    /\ UNCHANGED <<tool, token, ncalls, retried, retryVars, altVars, pureVars, raceVars, probeVars, miscVars, appendVars>>

\* One PATCH through _request_with_retry with the parsing of its body, and
\* the control flow after it.
UpdateDo(phase, key, v, rest, o) ==
    IF o.raised
    THEN /\ pc' = "raised"
         /\ ncalls' = ncalls + 1
         /\ UNCHANGED <<result, retried, attempts, status_code, data, todo>>
    ELSE LET dt == Parsed(o, Len(attempts) + 1)
             nx == UpdateNext(phase, o.status, rest)
         IN  /\ ncalls' = ncalls + 1
             /\ retried' = (retried \/ o.retried)
             /\ attempts' = Append(attempts, AttemptRec(phase, key, v, o))
             /\ status_code' = o.status
             /\ data' = dt
             /\ todo' = nx.todo
             /\ IF nx.pc = "finish"
                THEN pc' = "done" /\ result' = UpdateResult(o.status, dt)
                ELSE pc' = nx.pc /\ UNCHANGED result

\* Lines 376-380.
UpdatePreferred ==
    /\ tool = "notion_update_status" /\ pc = "u_pref"
    /\ \E o \in UpdateOutcomes :
        UpdateDo(1, PreferredKey(property_type), status_value, {}, o)
    /\ UNCHANGED <<tool, token, retryVars, altVars, pureVars, raceVars, status_value, property_type, db_given, miscVars, appendVars>>

\* Lines 382-388.
UpdateFallback ==
    /\ tool = "notion_update_status" /\ pc = "u_fallback"
    /\ \E o \in UpdateOutcomes :
        UpdateDo(2, FallbackKey(property_type), status_value, {}, o)
    /\ UNCHANGED <<tool, token, retryVars, altVars, pureVars, raceVars, status_value, property_type, db_given, miscVars, appendVars>>

\* Lines 392-399: one iteration.
UpdateVariantsPreferred ==
    /\ tool = "notion_update_status" /\ pc = "u_loop_pref"
    /\ \E v \in todo, o \in UpdateOutcomes :
        UpdateDo(3, PreferredKey(property_type), v, todo \ {v}, o)
    /\ UNCHANGED <<tool, token, retryVars, altVars, pureVars, raceVars, status_value, property_type, db_given, miscVars, appendVars>>

\* Lines 401-408: one iteration.
UpdateVariantsFallback ==
    /\ tool = "notion_update_status" /\ pc = "u_loop_fallback"
    /\ \E o \in UpdateOutcomes :
        UpdateDo(4, FallbackKey(property_type), NextInOrder, todo \ {NextInOrder}, o)
    /\ UNCHANGED <<tool, token, retryVars, altVars, pureVars, raceVars, status_value, property_type, db_given, miscVars, appendVars>>

(***************************************************************************)
(* http_fetch (lines 81-96) and tavily_search (lines 120-182): one request *)
(* each, sent with the client itself, not through _request_with_retry.     *)
(***************************************************************************)
\* What a single request gives back: a response, or an exception of the
\* client (connection refused, timeout, ...).
PlainOutcomes ==
    { Outcome(200, TRUE, 0, FALSE), Outcome(429, TRUE, 0, FALSE),
      Outcome(502, FALSE, 0, FALSE), RaisedOutcome }

\* Lines 92-96: {"status", "headers", "text"}; the dictionary carries no
\* success key.
FetchResult(o) ==
    [kind |-> "fetched", status |-> o.status, text |-> "text"]

\* Lines 90-96.
HttpFetch ==
    /\ tool = "http_fetch" /\ pc = "start"
    /\ \E o \in PlainOutcomes :
        /\ ncalls' = ncalls + 1
        /\ IF o.raised
           THEN pc' = "raised" /\ UNCHANGED result
           ELSE pc' = "done" /\ result' = FetchResult(o)
    /\ UNCHANGED <<tool, token, retried, retryVars, altVars, pureVars, raceVars, probeVars, miscVars, appendVars>>

TavilyKeyError ==
    [kind |-> "error", success |-> FALSE,
     error |-> "TAVILY_API_KEY is not set in environment"]

\* Lines 178-182, with the body of lines 172-175.
TavilyResult(o) ==
    [kind |-> "result", success |-> (o.status = 200), status |-> o.status,
     data |-> IF o.json THEN "json" ELSE "raw"]

\* Lines 142-144.
TavilyStart ==
    /\ tool = "tavily_search" /\ pc = "start"
    /\ IF ~tavily_key
       THEN result' = TavilyKeyError /\ pc' = "done"
       ELSE pc' = "post" /\ UNCHANGED result
    /\ UNCHANGED <<tool, token, ncalls, retried, retryVars, altVars, pureVars, raceVars, probeVars, miscVars, appendVars>>

\* Lines 166-182.
TavilyPost ==
    /\ tool = "tavily_search" /\ pc = "post"
    /\ \E o \in PlainOutcomes :
        /\ ncalls' = ncalls + 1
        /\ IF o.raised
           THEN pc' = "raised" /\ UNCHANGED result
           ELSE pc' = "done" /\ result' = TavilyResult(o)
    /\ UNCHANGED <<tool, token, retried, retryVars, altVars, pureVars, raceVars, probeVars, miscVars, appendVars>>

(***************************************************************************)
(* notion_update_database_schema (lines 437-540).                          *)
(***************************************************************************)
StatusProperty == "Status"
AltName == "Status (status)"
OutputNames ==
    {"Research Summary", "Citations", "Outline", "Draft", "Polished Script", "Segments"}

\* A property of a database, and the properties of a database as a set.
Prop(name, type) == [name |-> name, type |-> type]
Names(props) == {q.name : q \in props}
TypeOf(props, n) == (CHOOSE q \in props : q.name = n).type

\* Lines 496-525: the names of the properties the patch holds, given the
\* properties the database has.
Patch(ensure, add_outputs, props) ==
    (IF ~ensure THEN {}
     ELSE IF StatusProperty \notin Names(props) THEN {StatusProperty}
     ELSE IF TypeOf(props, StatusProperty) \in {"status", "select"} THEN {StatusProperty}
     ELSE IF AltName \notin Names(props) THEN {AltName}
     ELSE {})
    \cup
    (IF add_outputs THEN OutputNames \ Names(props) ELSE {})

\* The database after the remote applied the patch.
Patched(ensure, add_outputs, props) ==
    LET names == Patch(ensure, add_outputs, props)
    IN  props \cup
        {Prop(n, IF n \in OutputNames THEN "rich_text" ELSE "status") :
            n \in names \ Names(props)}

\* Line 529.
NoChangesResult ==
    [kind |-> "result", success |-> TRUE, status |-> 200, data |-> "message"]

\* What a call of _request_with_retry gives back to this tool.
SchemaOutcomes ==
    { Outcome(200, TRUE, 0, rt) : rt \in BOOLEAN }
        \cup { Outcome(404, TRUE, 0, FALSE), Outcome(502, FALSE, 0, FALSE),
               RaisedOutcome }

SchemaResult(o) ==
    [kind |-> "result", success |-> (o.status = 200), status |-> o.status,
     data |-> IF o.json THEN "json" ELSE "raw"]

\* Lines 463-465.
SchemaStart ==
    /\ tool = "notion_update_database_schema" /\ pc = "start"
    /\ IF NotionHeaders(token) = {}
       THEN result' = TokenError /\ pc' = "done"
       ELSE pc' = "s_get" /\ UNCHANGED result
    /\ UNCHANGED <<tool, token, ncalls, retried, retryVars, altVars, pureVars, raceVars, probeVars, miscVars, appendVars>>

\* Lines 485-529: the GET, and the early returns after it.
SchemaGet ==
    /\ tool = "notion_update_database_schema" /\ pc = "s_get"
    /\ \E o \in SchemaOutcomes :
        /\ ncalls' = ncalls + 1
        /\ retried' = (retried \/ o.retried)
        /\ IF o.raised
           THEN pc' = "raised" /\ UNCHANGED result
           ELSE IF o.status # 200
           THEN pc' = "done" /\ result' = [SchemaResult(o) EXCEPT !.success = FALSE]
           ELSE IF Patch(ensure_status, add_output_properties, db_properties) = {}
           THEN pc' = "done" /\ result' = NoChangesResult
           ELSE pc' = "s_patch" /\ UNCHANGED result
    /\ UNCHANGED <<tool, token, retryVars, altVars, pureVars, raceVars, probeVars, miscVars, appendVars>>

\* Lines 531-540.
SchemaPatch ==
    /\ tool = "notion_update_database_schema" /\ pc = "s_patch"
    /\ \E o \in SchemaOutcomes :
        /\ ncalls' = ncalls + 1
        /\ retried' = (retried \/ o.retried)
        /\ IF o.raised
           THEN pc' = "raised" /\ UNCHANGED result
           ELSE pc' = "done" /\ result' = SchemaResult(o)
        /\ db_properties' =
             IF ~o.raised /\ o.status = 200
             THEN Patched(ensure_status, add_output_properties, db_properties)
             ELSE db_properties
    /\ UNCHANGED <<tool, token, retryVars, altVars, pureVars, raceVars, probeVars, appendVars>>
    /\ UNCHANGED <<tavily_key, ensure_status, add_output_properties>>

(***************************************************************************)
(* notion_append_section (lines 543-877): the inline tokenizer _rt.        *)
(***************************************************************************)
\* The least position of a set of positions, `none` if the set is empty.
First(S, none) == IF S = {} THEN none ELSE CHOOSE i \in S : \A j \in S : i <= j

Whitespace == {" ", "\t", "\n"}

\* The grave accent (U+0060), the marker of a code span; a text holds it as
\* this element, since no string of the model can hold the character.
Backtick == "U+0060"

\* str.strip()
RECURSIVE LStrip(_)
LStrip(s) ==
    IF s # <<>> /\ Head(s) \in Whitespace THEN LStrip(Tail(s)) ELSE s

RECURSIVE RStrip(_)
RStrip(s) ==
    IF s # <<>> /\ s[Len(s)] \in Whitespace
    THEN RStrip(SubSeq(s, 1, Len(s) - 1)) ELSE s

Strip(s) == RStrip(LStrip(s))

\* Line 633: the longest content of one segment.
SegmentLimit == 2000

\* The first position from `from` on that holds a character of stops;
\* Len(s) + 1 if there is none.
IndexFrom(s, from, stops) ==
    First({k \in from..Len(s) : s[k] \in stops}, Len(s) + 1)

\* Line 597: the last position of the match of the pattern that starts at
\* position i, 0 if none starts there.  The alternatives are tried in the
\* order code, bold, asterisk italic, underscore italic.
MatchEnd(s, i) ==
    LET code == IndexFrom(s, i + 1, {Backtick})
        bold == IndexFrom(s, i + 2, {"*"})
        star == IndexFrom(s, i + 1, {"*", "\n"})
        under == IndexFrom(s, i + 1, {"_", "\n"})
    IN  IF s[i] = Backtick
        THEN IF code <= Len(s) /\ code > i + 1 THEN code ELSE 0
        ELSE IF s[i] = "*"
        THEN IF /\ i + 1 <= Len(s) /\ s[i + 1] = "*"
                /\ bold > i + 2 /\ bold + 1 <= Len(s)
                /\ s[bold] = "*" /\ s[bold + 1] = "*"
             THEN bold + 1
             ELSE IF star <= Len(s) /\ star > i + 1 /\ s[star] = "*"
             THEN star
             ELSE 0
        ELSE IF s[i] = "_"
        THEN IF under <= Len(s) /\ under > i + 1 /\ s[under] = "_"
             THEN under ELSE 0
        ELSE 0

NextMatch_CodeFirst(s, from) ==
    LET code == First({k \in from..Len(s) : s[k] = Backtick /\ MatchEnd(s, k) # 0}, 0)
    IN  IF code # 0 THEN code
        ELSE First({k \in from..Len(s) : MatchEnd(s, k) # 0}, Len(s) + 1)

\* The first position from `from` on at which a match starts; Len(s) + 1 if
\* there is none (pattern.finditer).
NextMatch(s, from) ==
    First({k \in from..Len(s) : MatchEnd(s, k) # 0}, Len(s) + 1)

\* _mk_segment
MkSegment(txt, bold, italic, code) ==
    [content |-> txt, bold |-> bold, italic |-> italic, code |-> code]

SpanSegment_KeepMarkers(s, i, e) ==
    MkSegment(SubSeq(s, i, e), FALSE, s[i] \in {"*", "_"}, s[i] = Backtick)

\* Lines 606-618: the segment of the span s[i..e].
SpanSegment(s, i, e) ==
    IF s[i] = Backtick THEN MkSegment(SubSeq(s, i + 1, e - 1), FALSE, FALSE, TRUE)
    ELSE IF s[i] = "*" /\ s[i + 1] = "*" /\ s[e] = "*" /\ s[e - 1] = "*"
    THEN MkSegment(SubSeq(s, i + 2, e - 2), TRUE, FALSE, FALSE)
    ELSE MkSegment(SubSeq(s, i + 1, e - 1), FALSE, TRUE, FALSE)

\* Lines 600-624: the tokens of s from position idx on.
RECURSIVE Tokens(_, _)
Tokens(s, idx) ==
    LET m == NextMatch(s, idx)
    IN  IF m > Len(s)
        THEN IF idx <= Len(s)
             THEN <<MkSegment(SubSeq(s, idx, Len(s)), FALSE, FALSE, FALSE)>>
             ELSE <<>>
        ELSE (IF m > idx
              THEN <<MkSegment(SubSeq(s, idx, m - 1), FALSE, FALSE, FALSE)>>
              ELSE <<>>)
             \o <<SpanSegment(s, m, MatchEnd(s, m))>>
             \o Tokens(s, MatchEnd(s, m) + 1)

Chunks_NoSplit(t) == <<t>>

\* Lines 633-637: one token cut into segments of at most SegmentLimit
\* characters.
RECURSIVE Chunks(_)
Chunks(t) ==
    IF Len(t.content) <= SegmentLimit THEN <<t>>
    ELSE <<MkSegment(SubSeq(t.content, 1, SegmentLimit), t.bold, t.italic, t.code)>>
         \o Chunks(MkSegment(SubSeq(t.content, SegmentLimit + 1, Len(t.content)),
                             t.bold, t.italic, t.code))

RECURSIVE ChunkAll(_)
ChunkAll(ts) ==
    IF ts = <<>> THEN <<>> ELSE Chunks(Head(ts)) \o ChunkAll(Tail(ts))

\* The argument None, a value that is no text: its one element is not a
\* character.
NoText == <<"None">>

\* text or ""
OrEmpty(text) == IF text = NoText THEN <<>> ELSE text

Rt_NoPlaceholder(text) == ChunkAll(Tokens(OrEmpty(text), 1))

\* _rt (lines 575-638)
Rt(text) ==
    LET tokens == Tokens(OrEmpty(text), 1)
    IN  ChunkAll(IF tokens = <<>> THEN <<MkSegment(<<>>, FALSE, FALSE, FALSE)>>
                 ELSE tokens)

\* One call of _rt, taken alone.
RtApply ==
    /\ tool = "_rt" /\ pc = "start"
    /\ rt_out' = Rt(rt_text)
    /\ pc' = "done"
    /\ UNCHANGED <<tool, token, result, ncalls, retried, retryVars, altVars,
                   probeVars, miscVars, appendVars, raceVars, rt_pieces, rt_text,
                   bt_items, bt_lines, detect_lists, bt_out, sanitized>>

\* Line 739: the text of a block as the remote reports it, the contents of
\* its segments joined.
RECURSIVE PlainText(_)
PlainText(rt) ==
    IF rt = <<>> THEN <<>> ELSE Head(rt).content \o PlainText(Tail(rt))

(***************************************************************************)
(* notion_append_section: the block-tree builder (lines 657-725).  A tree  *)
(* of blocks is a sequence of blocks in the order of their creation, each  *)
(* with the position of its parent (0: a top-level block of body_blocks);  *)
(* the children of a block are the blocks that name it, in that order.     *)
(***************************************************************************)
\* Line 672: the indent size when no list item is indented.
DefaultIndent == 2

\* Line 689: the longest text of one paragraph block.
ParagraphLimit == 1800

NoMatch == [kind |-> "none", indent |-> 0, text |-> <<>>]

\* The tail "\s+(?P<text>.+)$" of both list patterns, the marker ending at
\* position m: at least one whitespace character, then at least one
\* character of any kind.  \s+ takes all the whitespace there is and gives
\* the last one back when nothing else is left for the text.
ItemText(l, m) ==
    LET j == First({k \in (m + 1)..Len(l) : l[k] \notin Whitespace}, Len(l) + 1)
    IN  IF m >= Len(l) \/ l[m + 1] \notin Whitespace THEN NoText
        ELSE IF j <= Len(l) THEN SubSeq(l, j, Len(l))
        ELSE IF Len(l) >= m + 2 THEN <<l[Len(l)]>>
        ELSE NoText

\* Lines 664-665: list_pat_bullet.match(l) or list_pat_number.match(l).
ListMatch(l) ==
    LET i == First({k \in 1..Len(l) : l[k] \notin Whitespace}, Len(l) + 1)
        d == First({k \in i..Len(l) : ~IsDigit(l[k])}, Len(l) + 1)
    IN  IF i > Len(l) THEN NoMatch
        ELSE IF l[i] \in {"-", "*"} /\ ItemText(l, i) # NoText
        THEN [kind |-> "bullet", indent |-> i - 1, text |-> ItemText(l, i)]
        ELSE IF d > i /\ d <= Len(l) /\ l[d] \in {".", ")"} /\ ItemText(l, d) # NoText
        THEN [kind |-> "number", indent |-> i - 1, text |-> ItemText(l, d)]
        ELSE NoMatch

\* Lines 666-672: the least positive indent of a list item, 2 if there is
\* none.
IndentSize(lines) ==
    First({ListMatch(lines[k]).indent : k \in DOMAIN lines} \ {0}, DefaultIndent)

ItemLevel_Flat(spaces, indent_size) == 0

\* Line 702: level = spaces // max(1, indent_size)
ItemLevel(spaces, indent_size) == spaces \div Max(1, indent_size)

\* _make_block, _paragraph_block
TreeBlock(type, text, parent) ==
    [type |-> type, rich_text |-> Rt(text), parent |-> parent]

\* " ".join(para_buf)
RECURSIVE Join(_)
Join(buf) ==
    IF buf = <<>> THEN <<>>
    ELSE IF Len(buf) = 1 THEN buf[1]
    ELSE buf[1] \o <<" ">> \o Join(Tail(buf))

ParagraphBlocks_OneBlock(p) ==
    IF p = <<>> THEN <<>> ELSE <<TreeBlock("paragraph", p, 0)>>

\* Lines 688-689: the paragraph blocks of a text p.
ParagraphBlocks(p) ==
    [i \in 1..((Len(p) + ParagraphLimit - 1) \div ParagraphLimit) |->
        TreeBlock("paragraph",
                  SubSeq(p, (i - 1) * ParagraphLimit + 1, Min(i * ParagraphLimit, Len(p))),
                  0)]

\* The builder before the first line.
BuildStart == [body |-> <<>>, para_buf |-> <<>>, list_stack |-> <<>>]

FlushParagraph_KeepStack(st) ==
    IF st.para_buf = <<>> THEN st
    ELSE [st EXCEPT !.body = @ \o ParagraphBlocks(Strip(Join(st.para_buf))),
                    !.para_buf = <<>>]

\* _flush_paragraph (lines 682-693)
FlushParagraph(st) ==
    IF st.para_buf = <<>> THEN st
    ELSE [body |-> st.body \o ParagraphBlocks(Strip(Join(st.para_buf))),
          para_buf |-> <<>>,
          list_stack |-> <<>>]

Unwind_KeepEqual(stack, level) ==
    LET keep == {k \in 1..Len(stack) : stack[k].level <= level}
    IN  SubSeq(stack, 1, IF keep = {} THEN 0
                         ELSE CHOOSE k \in keep : \A j \in keep : j <= k)

\* Lines 707-708: the stack once the entries of a level >= level are popped.
Unwind(stack, level) ==
    LET keep == {k \in 1..Len(stack) : stack[k].level < level}
    IN  SubSeq(stack, 1, IF keep = {} THEN 0
                         ELSE CHOOSE k \in keep : \A j \in keep : j <= k)

\* Lines 697-713: a line that is a list item.
AddItem(st0, m, indent_size) ==
    LET st == FlushParagraph(st0)
        level == ItemLevel(m.indent, indent_size)
        stack == Unwind(st.list_stack, level)
        parent == IF stack # <<>> THEN stack[Len(stack)].block ELSE 0
        type == IF m.kind = "bullet" THEN "bulleted_list_item" ELSE "numbered_list_item"
    IN  [body |-> Append(st.body, TreeBlock(type, Strip(m.text), parent)),
         para_buf |-> <<>>,
         list_stack |-> Append(stack, [level |-> level, block |-> Len(st.body) + 1])]

\* Lines 695-725: one turn of the loop over the lines.
BuildLine(st, line, detect, indent_size) ==
    IF detect /\ ListMatch(line).kind # "none"
    THEN AddItem(st, ListMatch(line), indent_size)
    ELSE IF Strip(line) = <<>> THEN FlushParagraph(st)
    ELSE [st EXCEPT !.para_buf = Append(@, line)]

RECURSIVE BuildFrom(_, _, _, _)
BuildFrom(st, lines, detect, indent_size) ==
    IF lines = <<>> THEN st
    ELSE BuildFrom(BuildLine(st, Head(lines), detect, indent_size),
                   Tail(lines), detect, indent_size)

BuildBlocks_NoFinalFlush(lines, detect) ==
    BuildFrom(BuildStart, lines, detect, IndentSize(lines)).body

\* Lines 660-725: body_blocks for the lines of the content; the loop runs
\* over lines + [""].
BuildBlocks(lines, detect) ==
    BuildFrom(BuildStart, lines \o << <<>> >>, detect, IndentSize(lines)).body

\* A block as the tool holds it: its type, the payload key it carries (with
\* the rich_text under it), whether it has a "children" attribute, and the
\* blocks of that attribute.
Dict(type, key, rich_text, has_children, children) ==
    [type |-> type, key |-> key, rich_text |-> rich_text,
     has_children |-> has_children, children |-> children]

\* Lines 648-649: _paragraph_block(text)
ParagraphDict(text) == Dict("paragraph", "paragraph", Rt(text), FALSE, <<>>)

\* The positions of the blocks of a tree that name k as their parent, in
\* order.
RECURSIVE Ascending(_)
Ascending(S) ==
    IF S = {} THEN <<>>
    ELSE LET least == CHOOSE k \in S : \A j \in S : k <= j
         IN  <<least>> \o Ascending(S \ {least})

Kids(tree, k) == Ascending({i \in DOMAIN tree : tree[i].parent = k})

\* Lines 648-655, 674-678, 710: the block at position k of a tree as the
\* builder made it: a list item is made with "children": [], a paragraph
\* without the attribute.
RECURSIVE AsDict(_, _)
AsDict(tree, k) ==
    Dict(tree[k].type, tree[k].type, tree[k].rich_text,
         tree[k].type # "paragraph",
         [i \in DOMAIN Kids(tree, k) |-> AsDict(tree, Kids(tree, k)[i])])

\* body_blocks, as a list of blocks with their children.
BodyBlocks(tree) == [i \in DOMAIN Kids(tree, 0) |-> AsDict(tree, Kids(tree, 0)[i])]

\* Lines 806-813: the types the map req knows.
ReqTypes ==
    {"paragraph", "bulleted_list_item", "numbered_list_item",
     "heading_1", "heading_2", "heading_3"}

ListTypes == {"bulleted_list_item", "numbered_list_item"}

\* Lines 814-830: a block that lacks the key of its type becomes a paragraph
\* with the text recovered from the list key it carries, if any.
Coerce(block) ==
    IF block.type \in ReqTypes /\ block.key # block.type
    THEN ParagraphDict(IF block.type \in ListTypes /\ block.key \in ListTypes
                       THEN PlainText(block.rich_text) ELSE <<>>)
    ELSE block

\* Line 838: a sanitized child is kept unless it is a paragraph without
\* rich_text.
KeptChild(sc) ==
    sc.type # "paragraph" \/ (sc.key = "paragraph" /\ sc.rich_text # <<>>)

Sanitize_KeepChildren(block) == block

\* _sanitize (lines 802-845)
RECURSIVE Sanitize(_)
Sanitize(block) ==
    LET b == Coerce(block)
        new_children ==
            SelectSeq([i \in DOMAIN b.children |-> Sanitize(b.children[i])], KeptChild)
    IN  IF ~b.has_children THEN b
        ELSE [b EXCEPT !.has_children = (new_children # <<>>),
                       !.children = new_children]

\* Line 848: sanitized, for the body_blocks built.
Sanitized(tree) ==
    LET body_blocks == IF tree = <<>> THEN <<ParagraphDict(<<>>)>> ELSE BodyBlocks(tree)
    IN  [i \in DOMAIN body_blocks |-> Sanitize(body_blocks[i])]

\* The builder and the sanitizing of what it built, taken alone.
BuildApply ==
    /\ tool = "build" /\ pc = "start"
    /\ bt_out' = BuildBlocks(bt_lines, detect_lists)
    /\ sanitized' = Sanitized(BuildBlocks(bt_lines, detect_lists))
    /\ pc' = "done"
    /\ UNCHANGED <<tool, token, result, ncalls, retried, retryVars, altVars,
                   probeVars, miscVars, appendVars, raceVars, rt_pieces, rt_text, rt_out,
                   bt_items, bt_lines, detect_lists>>

(***************************************************************************)
(* notion_append_section: the page on the remote, and what the remote does *)
(* with it.                                                                *)
(***************************************************************************)
\* Lines 730, 762: page_size of a listing of children.
PageSize == 100
\* Line 851: the blocks of one append call.
BatchSize == 50

HeadingTypes == {"heading_1", "heading_2", "heading_3"}

\* A direct child of the page.  src is 0 for a block that is no body block
\* of this invocation, and k for the block made from sanitized[k - 1].
Block(id, type, text, src) == [id |-> id, type |-> type, text |-> text, src |-> src]

\* GET blocks/{page_id}/children?page_size=100[&start_cursor=c]: a cursor is
\* the position the next page of results starts at (0: from the start).
ListChildren(pg, cursor) ==
    LET first == IF cursor = 0 THEN 1 ELSE cursor
        last == Min(Len(pg), first + PageSize - 1)
    IN  [results |-> SubSeq(pg, first, last),
         has_more |-> last < Len(pg),
         next_cursor |-> IF last < Len(pg) THEN last + 1 ELSE 0]

\* A listing answer that reports has_more and carries no next_cursor (a
\* null one), as lines 772-774 read it.
WithoutCursor(payload) == [payload EXCEPT !.has_more = TRUE, !.next_cursor = 0]

\* The position of the block with this id in a sequence of blocks, 0 if none.
IndexOfId(blocks, id) ==
    First({i \in DOMAIN blocks : blocks[i].id = id}, 0)

OnPage(pg, id) == IndexOfId(pg, id) # 0

\* PATCH blocks/{page_id}/children with "after": the new blocks follow the
\* block named; without it they go to the end of the page.
InsertAfter(pg, after, blocks) ==
    LET k == IF after = 0 THEN Len(pg) ELSE IndexOfId(pg, after)
    IN  SubSeq(pg, 1, k) \o blocks \o SubSeq(pg, k + 1, Len(pg))

\* DELETE blocks/{bid}
DeleteBlock(pg, bid) ==
    LET Keep(b) == b.id # bid IN SelectSeq(pg, Keep)

\* The blocks the remote creates for the batch sanitized[i : i + n].
NewBlocks(first_id, i, n) ==
    [k \in 1..n |-> Block(first_id + k - 1, "paragraph", <<"n", "e", "w">>, i + k)]

(***************************************************************************)
(* notion_append_section: the computations of the tool.                    *)
(***************************************************************************)
\* Lines 641-642; 0 stands for a heading_level that is falsy.
HeadingKey(level) ==
    LET l == Max(1, Min(3, IF level = 0 THEN 2 ELSE level))
    IN  IF l = 1 THEN "heading_1" ELSE IF l = 2 THEN "heading_2" ELSE "heading_3"

\* Lines 736-742: the id of the first child that is a heading of the level
\* asked for with the text asked for, 0 (None) if there is none.
FindHeading(children, key, h) ==
    LET hit == First({i \in DOMAIN children :
                         /\ children[i].type = key
                         /\ Strip(children[i].text) = Strip(h)}, 0)
    IN  IF hit = 0 THEN 0 ELSE children[hit].id

\* Line 759: mode and str(mode).lower() == "replace"
IsReplace(m) == m # <<>> /\ Lower(m) = <<"r", "e", "p", "l", "a", "c", "e">>

\* The rank of a heading type: 1 is the highest.
HeadingRank(type) ==
    IF type = "heading_1" THEN 1 ELSE IF type = "heading_2" THEN 2 ELSE 3

NextHeading_EqualOrHigherRank(children, idx) ==
    First({j \in (idx + 1)..Len(children) :
              /\ children[j].type \in HeadingTypes
              /\ HeadingRank(children[j].type) <= HeadingRank(children[idx].type)},
          Len(children) + 1)

\* Lines 785-789: the position of the first heading after position idx,
\* Len(children) + 1 if there is none.
NextHeading(children, idx) ==
    First({j \in (idx + 1)..Len(children) : children[j].type \in HeadingTypes},
          Len(children) + 1)

\* Lines 777-791: delete_slice.
DeleteSlice(children, anchor) ==
    LET idx_heading == IndexOfId(children, anchor)
    IN  IF idx_heading = 0 THEN <<>>
        ELSE SubSeq(children, idx_heading + 1, NextHeading(children, idx_heading) - 1)

SanitizedLen_NoPlaceholder(n) == n

\* Line 848: len(sanitized).
SanitizedLen(n) == IF n = 0 THEN 1 ELSE n

AppendResult_Only200(st, created, after) ==
    [kind |-> "result", success |-> (st = 200), status |-> st,
     data |-> "batches",
     appended_under_existing |-> (~created /\ after # 0)]

AppendResult_UnderAnyAnchor(st, created, after) ==
    [kind |-> "result", success |-> (st \in {200, 202}), status |-> st,
     data |-> "batches",
     appended_under_existing |-> (after # 0)]

\* Lines 872-877.
AppendResult(st, created, after) ==
    [kind |-> "result", success |-> (st \in {200, 202}), status |-> st,
     data |-> "batches",
     appended_under_existing |-> (~created /\ after # 0)]

\* What a call of _request_with_retry gives back to this tool: a success,
\* a JSON error, an error page that is no JSON; or an exception.
AppendOutcomes ==
    { Outcome(200, TRUE, 0, FALSE), Outcome(404, TRUE, 0, FALSE),
      Outcome(502, FALSE, 0, FALSE), RaisedOutcome }

\* The answers to an append call; 202 is taken as a success like 200.
BatchOutcomes == AppendOutcomes \cup {Outcome(202, TRUE, 0, FALSE)}

\* The remote carried the request out.
RemoteOk(o) == ~o.raised /\ o.status \in {200, 202}

\* A remote request as the log keeps it: the call (locate, create, list,
\* delete, append), its argument (the cursor of a listing, the block of a
\* DELETE, "after" of an append, 0 if none), the status of the answer, the
\* id the tool took from the answer (the heading found or created, the last
\* block inserted, 0 if none), and, for an append, the batch
\* sanitized[first : first + n].  For a listing, got is 1 when the answer
\* reports has_more, first is the next_cursor of the answer (0: none) and n
\* the number of its results.
LogRec(op, arg, o, got, first, n) ==
    [op |-> op, arg |-> arg, status |-> o.status, got |-> got,
     first |-> first, n |-> n]

\* Lines 862-866: after_block_id after a batch, given the blocks the answer
\* reports as inserted.
NextAfter_Stale(inserted, after) == after

NextAfter(inserted, after) ==
    IF inserted # <<>> THEN inserted[Len(inserted)].id ELSE after

AfterAnchor_AlwaysList(m, after) == IF after # 0 THEN "a_list" ELSE "a_batch"

\* Line 759, after the anchor is settled.
AfterAnchor(m, after) == IF IsReplace(m) /\ after # 0 THEN "a_list" ELSE "a_batch"

(***************************************************************************)
(* notion_append_section: the steps of the tool, one per remote call.      *)
(***************************************************************************)
appendInputs == <<heading, heading_level, mode, find_existing, nblocks, page0,
                  call_no, log1>>
appendOthers == <<tool, token, retried, retryVars, altVars, pureVars, raceVars, probeVars, miscVars>>

\* Lines 571-573, and line 728.
AppendStart ==
    /\ tool = "notion_append_section" /\ pc = "start"
    /\ IF NotionHeaders(token) = {}
       THEN result' = TokenError /\ pc' = "done"
       ELSE /\ pc' = IF find_existing THEN "a_locate" ELSE "a_create"
            /\ UNCHANGED result
    /\ UNCHANGED <<ncalls, appendOthers, appendVars>>

\* Lines 728-745: Locate.
AppendLocate ==
    /\ tool = "notion_append_section" /\ pc = "a_locate"
    /\ \E o \in AppendOutcomes :
        LET children_list ==
                IF ~o.raised /\ o.status = 200
                THEN ListChildren(page, 0).results ELSE <<>>
            found == FindHeading(children_list, HeadingKey(heading_level), heading)
        IN  /\ ncalls' = ncalls + 1
            /\ log' = Append(log, LogRec("locate", 0, o, found, 0, 0))
            /\ IF o.raised
               THEN pc' = "raised" /\ UNCHANGED after_block_id
               ELSE /\ after_block_id' = found
                    /\ pc' = IF found = 0 THEN "a_create" ELSE AfterAnchor(mode, found)
    /\ UNCHANGED <<result, appendOthers, appendInputs>>
    /\ UNCHANGED <<page, next_id, created_heading, all_children, next_cursor,
                   delete_slice, batch_start, resp_status>>

\* Lines 745-759: the heading is created at the end of the page.
AppendCreate ==
    /\ tool = "notion_append_section" /\ pc = "a_create"
    /\ created_heading' = TRUE
    /\ \E o \in AppendOutcomes :
        /\ ncalls' = ncalls + 1
        /\ log' = Append(log, LogRec("create", 0, o,
                                      IF o.status = 200 THEN next_id ELSE 0, 0, 0))
        /\ IF o.raised
           THEN pc' = "raised" /\ UNCHANGED <<page, next_id, after_block_id>>
           ELSE IF o.status = 200
           THEN /\ page' = Append(page, Block(next_id, HeadingKey(heading_level),
                                               PlainText(Rt(heading)), 0))
                /\ next_id' = next_id + 1
                /\ after_block_id' = next_id
                /\ pc' = AfterAnchor(mode, next_id)
           ELSE /\ pc' = AfterAnchor(mode, after_block_id)
                /\ UNCHANGED <<page, next_id, after_block_id>>
    /\ UNCHANGED <<result, appendOthers, appendInputs>>
    /\ UNCHANGED <<all_children, next_cursor, delete_slice, batch_start, resp_status>>

\* Lines 765-791: one listing call of the replace step, and, after the last
\* one, the choice of the blocks to delete.
AppendList ==
    /\ tool = "notion_append_section" /\ pc = "a_list"
    /\ \E o \in AppendOutcomes, faulty \in BOOLEAN :
        LET payload ==
                IF ~o.raised /\ o.status = 200
                THEN IF faulty THEN WithoutCursor(ListChildren(page, next_cursor))
                     ELSE ListChildren(page, next_cursor)
                ELSE [results |-> <<>>, has_more |-> FALSE, next_cursor |-> 0]
            listed == all_children \o payload.results
            slice == DeleteSlice(listed, after_block_id)
        IN  /\ faulty => /\ ~o.raised /\ o.status = 200
                         /\ Len(page) < PageSize
                         /\ Cardinality({k \in DOMAIN log :
                                           /\ log[k].op = "list"
                                           /\ log[k].got = 1
                                           /\ log[k].first = 0}) < MaxListCalls
            /\ ncalls' = ncalls + 1
            /\ log' = Append(log, LogRec("list", next_cursor, o,
                                         IF payload.has_more THEN 1 ELSE 0,
                                         payload.next_cursor,
                                         Len(payload.results)))
            /\ IF o.raised
               THEN /\ pc' = "raised"
                    /\ UNCHANGED <<all_children, next_cursor, delete_slice>>
               ELSE /\ all_children' = listed
                    /\ IF payload.has_more
                       THEN /\ next_cursor' = payload.next_cursor
                            /\ UNCHANGED <<pc, delete_slice>>
                       ELSE /\ delete_slice' = slice
                            /\ pc' = IF slice = <<>> THEN "a_batch" ELSE "a_delete"
                            /\ UNCHANGED next_cursor
    /\ UNCHANGED <<result, appendOthers, appendInputs>>
    /\ UNCHANGED <<page, next_id, after_block_id, created_heading, batch_start, resp_status>>

AfterDelete_StopOnFailure(o, rest) ==
    IF rest = <<>> \/ o.status # 200 THEN "a_batch" ELSE "a_delete"

AfterDelete_Relist(o, rest) == IF rest = <<>> THEN "a_batch" ELSE "a_list"

\* Lines 792-797: where the loop goes after a DELETE; its answer o is not
\* looked at.
AfterDelete(o, rest) == IF rest = <<>> THEN "a_batch" ELSE "a_delete"

\* Lines 792-797: one iteration; the answer to the DELETE is not looked at.
AppendDelete ==
    /\ tool = "notion_append_section" /\ pc = "a_delete"
    /\ \E o \in AppendOutcomes :
        LET bid == Head(delete_slice).id
        IN  /\ ncalls' = ncalls + 1
            /\ log' = Append(log, LogRec("delete", bid, o, 0, 0, 0))
            /\ IF o.raised
               THEN /\ pc' = "raised"
                    /\ UNCHANGED <<page, delete_slice>>
               ELSE /\ page' = IF o.status = 200 THEN DeleteBlock(page, bid) ELSE page
                    /\ delete_slice' = Tail(delete_slice)
                    /\ pc' = AfterDelete(o, Tail(delete_slice))
    /\ UNCHANGED <<result, appendOthers, appendInputs>>
    /\ UNCHANGED <<next_id, after_block_id, created_heading, all_children,
                   next_cursor, batch_start, resp_status>>

PayloadAfter_Omitted(after) == 0

\* Lines 854-855: the "after" of the payload of an append call (0: the key
\* is left out).
PayloadAfter(after) == after

\* Lines 851-877: one append call, and, after the last one, the return.
AppendBatch ==
    /\ tool = "notion_append_section" /\ pc = "a_batch"
    /\ \E o \in BatchOutcomes :
        LET n == Min(BatchSize, SanitizedLen(nblocks) - batch_start)
            inserted ==
                IF RemoteOk(o) THEN NewBlocks(next_id, batch_start, n) ELSE <<>>
            after == NextAfter(inserted, after_block_id)
            last == batch_start + BatchSize >= SanitizedLen(nblocks)
        IN  /\ (RemoteOk(o) => after_block_id = 0 \/ OnPage(page, after_block_id))
            /\ ncalls' = ncalls + 1
            /\ log' = Append(log, LogRec("append", PayloadAfter(after_block_id), o,
                                          IF inserted # <<>> THEN inserted[Len(inserted)].id ELSE 0,
                                          batch_start, n))
            /\ IF o.raised
               THEN /\ pc' = "raised"
                    /\ UNCHANGED <<page, next_id, after_block_id, batch_start,
                                   resp_status, result>>
               ELSE /\ page' = InsertAfter(page, PayloadAfter(after_block_id), inserted)
                    /\ next_id' = next_id + Len(inserted)
                    /\ after_block_id' = after
                    /\ batch_start' = batch_start + BatchSize
                    /\ resp_status' = o.status
                    /\ IF last
                       THEN /\ pc' = "done"
                            /\ result' = AppendResult(o.status, created_heading, after)
                       ELSE UNCHANGED <<pc, result>>
    /\ UNCHANGED <<appendOthers, appendInputs>>
    /\ UNCHANGED <<created_heading, all_children, next_cursor, delete_slice>>

(***************************************************************************)
(* notion_append_section: two invocations running at the same time.  The   *)
(* tool is a plain function that keeps nothing between its remote calls    *)
(* but its locals, and takes no lock: invocations in two threads or two    *)
(* processes interleave between their remote calls.  Lines 727-756.        *)
(***************************************************************************)
Calls == {1, 2}

\* Lines 730, 748: the page whose children the call reads and extends.
ChildrenOf_OnePage(c) == 1

ChildrenOf(c) == cc_page_id[c]

\* A remote call of a concurrent invocation, as the order of arrival at the
\* remote keeps it: the invocation, the call, the status of the answer and
\* the id the tool took from the answer (0 if none).
Arrival(c, op, o, got) == [call |-> c, op |-> op, status |-> o.status, got |-> got]

\* Lines 728-745: Locate of invocation c.
ConcLocate(c) ==
    /\ tool = "notion_append_section" /\ pc = "concurrent"
    /\ cc_pc[c] = "a_locate"
    /\ \E o \in AppendOutcomes :
        LET children_list ==
                IF ~o.raised /\ o.status = 200
                THEN ListChildren(cc_pages[ChildrenOf(c)], 0).results ELSE <<>>
            found == FindHeading(children_list, HeadingKey(heading_level), heading)
        IN  /\ cc_arrivals' = Append(cc_arrivals, Arrival(c, "locate", o, found))
            /\ IF o.raised
               THEN /\ cc_pc' = [cc_pc EXCEPT ![c] = "raised"]
                    /\ UNCHANGED cc_after
               ELSE /\ cc_after' = [cc_after EXCEPT ![c] = found]
                    /\ cc_pc' = [cc_pc EXCEPT ![c] =
                                    IF found = 0 THEN "a_create" ELSE "anchored"]
    /\ UNCHANGED <<cc_pages, cc_page_id, cc_created, cc_next_id>>
    /\ UNCHANGED <<commonVars, retryVars, altVars, probeVars, miscVars,
                   appendVars, pureVars>>

\* Lines 745-756: invocation c creates the heading at the end of the page.
ConcCreate(c) ==
    /\ tool = "notion_append_section" /\ pc = "concurrent"
    /\ cc_pc[c] = "a_create"
    /\ cc_created' = [cc_created EXCEPT ![c] = TRUE]
    /\ \E o \in AppendOutcomes :
        /\ cc_arrivals' = Append(cc_arrivals,
               Arrival(c, "create", o, IF o.status = 200 THEN cc_next_id ELSE 0))
        /\ IF o.raised
           THEN /\ cc_pc' = [cc_pc EXCEPT ![c] = "raised"]
                /\ UNCHANGED <<cc_pages, cc_next_id, cc_after>>
           ELSE IF o.status = 200
           THEN /\ cc_pages' = [cc_pages EXCEPT ![ChildrenOf(c)] =
                       Append(@, Block(cc_next_id, HeadingKey(heading_level),
                                       PlainText(Rt(heading)), 0))]
                /\ cc_next_id' = cc_next_id + 1
                /\ cc_after' = [cc_after EXCEPT ![c] = cc_next_id]
                /\ cc_pc' = [cc_pc EXCEPT ![c] = "anchored"]
           ELSE /\ cc_pc' = [cc_pc EXCEPT ![c] = "anchored"]
                /\ UNCHANGED <<cc_pages, cc_next_id, cc_after>>
    /\ UNCHANGED cc_page_id
    /\ UNCHANGED <<commonVars, retryVars, altVars, probeVars, miscVars,
                   appendVars, pureVars>>

(***************************************************************************)
(* Specifications.                                                         *)
(***************************************************************************)
\* A tool is about to be invoked.
InitCall(t) ==
    /\ tool = t
    /\ pc = "start"
    /\ result = NoResult
    /\ ncalls = 0
    /\ retried = FALSE

\* No call of _request_with_retry is modelled step by step.
IdleRetry ==
    /\ rr_pc = "idle"
    /\ rr_err = "none"
    /\ attempt = 0
    /\ max_retries = 0
    /\ base_delay = DefaultBaseDelay
    /\ max_delay = DefaultMaxDelay
    /\ rr_resp = NoResponse
    /\ rr_trace = <<>>

IdleAlt ==
    /\ av_val = <<>>
    /\ av_query = {}
    /\ av_update = {}

NoData == [id |-> 0, raw |-> FALSE, rows |-> 0]

IdlePure ==
    /\ rt_pieces = <<>>
    /\ rt_text = <<>>
    /\ rt_out = <<>>
    /\ bt_items = <<>>
    /\ bt_lines = <<>>
    /\ detect_lists = TRUE
    /\ bt_out = <<>>
    /\ sanitized = <<>>

IdleRace ==
    /\ cc_pages = <<>>
    /\ cc_page_id = <<>>
    /\ cc_pc = <<>>
    /\ cc_after = <<>>
    /\ cc_created = <<>>
    /\ cc_next_id = 1
    /\ cc_arrivals = <<>>

IdleMisc ==
    /\ tavily_key = TRUE
    /\ ensure_status = TRUE
    /\ add_output_properties = FALSE
    /\ db_properties = {}

IdleAppend ==
    /\ page = <<>>
    /\ next_id = 1
    /\ heading = <<>>
    /\ heading_level = 2
    /\ mode = <<>>
    /\ find_existing = TRUE
    /\ nblocks = 0
    /\ after_block_id = 0
    /\ created_heading = FALSE
    /\ all_children = <<>>
    /\ next_cursor = 0
    /\ delete_slice = <<>>
    /\ batch_start = 0
    /\ resp_status = 0
    /\ log = <<>>
    /\ page0 = <<>>
    /\ call_no = 1
    /\ log1 = <<>>

IdleProbe ==
    /\ status_value = <<>>
    /\ property_type = <<>>
    /\ db_given = TRUE
    /\ attempts = <<>>
    /\ status_code = 0
    /\ data = NoData
    /\ todo = {}

InitRetry ==
    /\ InitCall("notion_get_database")
    /\ token \in BOOLEAN
    /\ rr_pc = "idle"
    /\ rr_err = "none"
    /\ attempt = 0
    /\ max_retries \in 0..MaxRetries
    /\ base_delay = DefaultBaseDelay
    /\ max_delay \in {DefaultMaxDelay, 1000}
    /\ rr_resp = NoResponse
    /\ rr_trace = <<>>
    /\ IdleAlt
    /\ IdlePure
    /\ IdleRace
    /\ IdleProbe
    /\ IdleMisc
    /\ IdleAppend

NextRetry == RRStep \/ GetDbStart \/ GetDbFinish

SpecRetry == InitRetry /\ [][NextRetry]_vars

InitAlt ==
    /\ InitCall("_alt_values")
    /\ token = TRUE
    /\ IdleRetry
    /\ av_val \in AltInputs
    /\ av_query = {}
    /\ av_update = {}
    /\ IdlePure
    /\ IdleRace
    /\ IdleProbe
    /\ IdleMisc
    /\ IdleAppend

NextAlt == CallAltQuery \/ CallAltUpdate

SpecAlt == InitAlt /\ [][NextAlt]_vars

\* The status values and property types the probing is run on.
ProbeValues ==
    { S_not_started, S_Not_Started, S_In_progress, <<"D","O","N","E">>, S_blocked }

ProbeTypes == {PT_Select, PT_status}

InitProbe ==
    /\ \E t \in {"notion_query_eligible", "notion_update_status"} : InitCall(t)
    /\ token \in BOOLEAN
    /\ IdleRetry
    /\ IdleAlt
    /\ IdlePure
    /\ IdleRace
    /\ status_value \in ProbeValues
    /\ property_type \in ProbeTypes
    /\ db_given \in BOOLEAN
    /\ attempts = <<>>
    /\ status_code = 0
    /\ data = NoData
    /\ todo = {}
    /\ IdleMisc
    /\ IdleAppend

NextQuery ==
    \/ QueryStart
    \/ QueryPreferred
    \/ QueryFallback
    \/ QueryVariantsPreferred
    \/ QueryVariantsFallback

NextUpdate ==
    \/ UpdateStart
    \/ UpdatePreferred
    \/ UpdateFallback
    \/ UpdateVariantsPreferred
    \/ UpdateVariantsFallback

NextProbe == NextQuery \/ NextUpdate

SpecProbe == InitProbe /\ [][NextProbe]_vars

\* The pages, headings and modes notion_append_section is run on.
T_Draft == <<"D", "r", "a", "f", "t">>
T_Notes == <<"N", "o", "t", "e", "s">>
T_old == <<"o", "l", "d">>
S_append == <<"a", "p", "p", "e", "n", "d">>
S_Replace == <<"R", "e", "p", "l", "a", "c", "e">>

\* A page with these blocks (type and text of each), numbered from 1.
MkPage(blocks) ==
    [k \in DOMAIN blocks |-> Block(k, blocks[k][1], blocks[k][2], 0)]

Filler(n) == [k \in 1..n |-> <<"paragraph", <<>>>>]

ExampleBlocks ==
    << <<"heading_2", T_Draft>>, <<"paragraph", T_old>>, <<"heading_2", T_Notes>> >>

ExamplePage == MkPage(ExampleBlocks)

\* A page that holds the text of the heading in a heading of another level,
\* in a paragraph and, padded, in two headings of level 2, the first one
\* followed by two paragraphs and a heading of level 3.
MixedPage ==
    MkPage(<< <<"heading_1", T_Draft>>,
              <<"paragraph", T_Draft>>,
              <<"heading_2", <<" ">> \o T_Draft>>,
              <<"paragraph", T_old>>,
              <<"paragraph", T_old>>,
              <<"heading_3", T_Notes>>,
              <<"paragraph", T_old>>,
              <<"heading_2", T_Draft>> >>)

\* Pages longer than one page of results of a listing: the example after
\* PageSize paragraphs, and a section that starts at position PageSize.
LongPage == MkPage(Filler(PageSize) \o ExampleBlocks)

StraddlingPage == MkPage(Filler(PageSize - 1) \o ExampleBlocks)

AppendPages == {<<>>, ExamplePage, MixedPage, LongPage, StraddlingPage}

AppendHeadings ==
    {T_Draft, T_Draft \o <<"\n">>, <<"*">> \o T_Draft \o <<"*">>}

AppendLevels == {0, 5}

AppendModes == {S_append, S_Replace}

BodySizes == {0, 2, BatchSize + 1}

InitAppend ==
    /\ InitCall("notion_append_section")
    /\ token \in BOOLEAN
    /\ IdleRetry
    /\ IdleAlt
    /\ IdlePure
    /\ IdleRace
    /\ IdleProbe
    /\ IdleMisc
    /\ page \in AppendPages
    /\ page0 = page
    /\ next_id = Len(page) + 1
    /\ heading \in AppendHeadings
    /\ heading_level \in AppendLevels
    /\ mode \in AppendModes
    /\ find_existing \in BOOLEAN
    /\ nblocks \in BodySizes
    /\ after_block_id = 0
    /\ created_heading = FALSE
    /\ all_children = <<>>
    /\ next_cursor = 0
    /\ delete_slice = <<>>
    /\ batch_start = 0
    /\ resp_status = 0
    /\ log = <<>>
    /\ call_no = 1
    /\ log1 = <<>>

NextAppend ==
    \/ AppendStart
    \/ AppendLocate
    \/ AppendCreate
    \/ AppendList
    \/ AppendDelete
    \/ AppendBatch

SpecAppend == InitAppend /\ [][NextAppend]_vars

\* The tool has returned and is invoked again, on the same page and with the
\* same arguments.
AppendAgain ==
    /\ tool = "notion_append_section" /\ pc = "done" /\ result.kind = "result"
    /\ call_no = 1
    /\ call_no' = 2
    /\ log1' = log
    /\ page' = [k \in DOMAIN page |-> [page[k] EXCEPT !.src = 0]]
    /\ page0' = page'
    /\ pc' = "start"
    /\ result' = NoResult
    /\ ncalls' = 0
    /\ after_block_id' = 0
    /\ created_heading' = FALSE
    /\ all_children' = <<>>
    /\ next_cursor' = 0
    /\ delete_slice' = <<>>
    /\ batch_start' = 0
    /\ resp_status' = 0
    /\ log' = <<>>
    /\ UNCHANGED <<appendOthers, next_id, heading, heading_level, mode,
                   find_existing, nblocks>>

\* Two invocations in sequence, with a credential, that look for an existing
\* heading.
InitTwice ==
    /\ InitAppend
    /\ token /\ find_existing
    /\ nblocks = 2 /\ heading_level = 0
    /\ page \in {<<>>, ExamplePage, LongPage}

NextTwice == NextAppend \/ AppendAgain

SpecTwice == InitTwice /\ [][NextTwice]_vars

\* The databases notion_update_database_schema is run on.
\* ---- _rt alone: texts made of spans and plain runs ------------------------
MaxPieces == 3

SpanKinds == {"bold", "star", "under", "code"}
Bodies == {<<"a">>, <<"a", "\n", "b">>, <<"a", "*", "b">>}
Pieces == [kind : SpanKinds \cup {"plain"}, body : Bodies]

\* The marker that opens and closes a span of a kind.
Marker(kind) ==
    CASE kind = "bold"  -> <<"*", "*">>
      [] kind = "star"  -> <<"*">>
      [] kind = "under" -> <<"_">>
      [] kind = "code"  -> <<Backtick>>
      [] OTHER          -> <<>>

\* The text a sequence of pieces stands for.
RECURSIVE Render(_)
Render(ps) ==
    IF ps = <<>> THEN <<>>
    ELSE Marker(Head(ps).kind) \o Head(ps).body \o Marker(Head(ps).kind)
         \o Render(Tail(ps))

\* Spans interleaved with plain runs: no two plain runs side by side.
Interleaved(ps) ==
    \A i \in 1..(Len(ps) - 1) : ~(ps[i].kind = "plain" /\ ps[i + 1].kind = "plain")

PieceSeqs ==
    {ps \in UNION {[1..n -> Pieces] : n \in 0..MaxPieces} : Interleaved(ps)}

\* A run of n characters.
Run(n) == [i \in 1..n |-> "x"]

LongLengths ==
    {SegmentLimit, SegmentLimit + 1, 2 * SegmentLimit, 2 * SegmentLimit + 1}

LongInputs ==
    {<<[kind |-> k, body |-> Run(n)]>> : k \in SpanKinds \cup {"plain"}, n \in LongLengths}
    \cup {<<[kind |-> "plain", body |-> <<"a">>],
            [kind |-> k, body |-> Run(SegmentLimit + 1)]>> : k \in SpanKinds}

\* Spans that hold markers of other kinds, a span that ends inside what
\* would be another span, and markers that close nothing.
NestedInputs ==
    { <<[kind |-> "bold", body |-> <<"a", Backtick, "b", Backtick, "_", "c", "_">>]>>,
      <<[kind |-> "code", body |-> <<"*", "*", "a", "*", "*">>]>>,
      <<[kind |-> "under", body |-> <<"*", "a", "*", Backtick, "b", Backtick>>]>>,
      <<[kind |-> "star", body |-> <<"a", " ", Backtick, "b">>],
        [kind |-> "plain", body |-> <<" ", "c", Backtick>>]>>,
      <<[kind |-> "plain", body |-> <<"*", "*", "a", "*", " ", "_", "b">>]>>,
      <<[kind |-> "bold", body |-> <<"a", " ", "*", "b", "*", " ", "c">>]>> }

InitRt ==
    /\ tool = "_rt" /\ pc = "start"
    /\ token = TRUE /\ result = NoResult /\ ncalls = 0 /\ retried = FALSE
    /\ IdleRetry
    /\ IdleAlt
    /\ IdleProbe
    /\ IdleMisc
    /\ IdleAppend
    /\ IdleRace
    /\ rt_pieces \in PieceSeqs \cup LongInputs \cup NestedInputs
    /\ rt_text \in {Render(rt_pieces)} \cup (IF rt_pieces = <<>> THEN {NoText} ELSE {})
    /\ rt_out = <<>>
    /\ bt_items = <<>> /\ bt_lines = <<>> /\ detect_lists = TRUE /\ bt_out = <<>>
    /\ sanitized = <<>>

NextRt == RtApply

SpecRt == InitRt /\ [][NextRt]_vars

\* ---- the block-tree builder alone: contents of list items and text lines --
MaxLines == 3

\* A line: its indent, its list marker (none: a line of paragraph text) and
\* its text.
Line(indent, marker, text) == [indent |-> indent, marker |-> marker, text |-> text]

LinePool ==
    {Line(0, <<"-">>, <<"a">>), Line(2, <<"-">>, <<"b">>), Line(4, <<"-">>, <<"c">>),
     Line(1, <<"*">>, <<"d">>), Line(0, <<"1", ".">>, <<"e">>),
     Line(2, <<"2", ")">>, <<"f">>), Line(0, <<>>, <<"t">>), Line(0, <<>>, <<>>)}

\* The characters of a line.
LineText(l) ==
    [i \in 1..l.indent |-> " "] \o l.marker
    \o (IF l.marker # <<>> THEN <<" ">> ELSE <<>>) \o l.text

\* Paragraph text of n characters.
LongText(n) == [i \in 1..n |-> "x"]

\* Contents with paragraph text longer than one paragraph block holds.
LongParagraphs ==
    { <<Line(0, <<>>, LongText(ParagraphLimit + 1))>>,
      <<Line(0, <<>>, LongText(ParagraphLimit)), Line(0, <<>>, <<"t">>)>>,
      <<Line(0, <<>>, LongText(2 * ParagraphLimit))>>,
      <<Line(0, <<"-">>, <<"a">>), Line(0, <<>>, LongText(ParagraphLimit + 1)),
        Line(2, <<"-">>, <<"b">>)>> }

\* Contents of more lines: a list, a line of paragraph text, a list of two
\* levels.
LongerContents ==
    { <<Line(0, <<"-">>, <<"a">>), Line(0, <<>>, <<"t">>),
        Line(0, <<"-">>, <<"b">>), Line(2, <<"-">>, <<"c">>)>>,
      <<Line(0, <<"-">>, <<"a">>), Line(2, <<"-">>, <<"b">>), Line(0, <<>>, <<"t">>),
        Line(4, <<"-">>, <<"c">>), Line(0, <<>>, <<>>), Line(0, <<>>, <<"t">>)>> }
    \cup LongParagraphs

InitBuild ==
    /\ tool = "build" /\ pc = "start"
    /\ token = TRUE /\ result = NoResult /\ ncalls = 0 /\ retried = FALSE
    /\ IdleRetry
    /\ IdleAlt
    /\ IdleProbe
    /\ IdleMisc
    /\ IdleAppend
    /\ IdleRace
    /\ rt_pieces = <<>> /\ rt_text = <<>> /\ rt_out = <<>>
    /\ bt_items \in UNION {[1..n -> LinePool] : n \in 0..MaxLines} \cup LongerContents
    /\ bt_lines = [i \in 1..Len(bt_items) |-> LineText(bt_items[i])]
    /\ detect_lists \in BOOLEAN
    /\ bt_out = <<>>
    /\ sanitized = <<>>

NextBuild == BuildApply

SpecBuild == InitBuild /\ [][NextBuild]_vars

\* ---- two invocations of notion_append_section at the same time -----------
\* The pages of the remote, and what they hold before the invocations: no
\* block, a paragraph, or the example with its heading.
RacePageIds == {1, 2}

RacePage(p, blocks) ==
    [k \in DOMAIN blocks |->
        Block(Len(ExampleBlocks) * (p - 1) + k, blocks[k][1], blocks[k][2], 0)]

RaceContents == {<<>>, << <<"paragraph", T_old>> >>, ExampleBlocks}

InitRace ==
    /\ tool = "notion_append_section" /\ pc = "concurrent"
    /\ token = TRUE /\ result = NoResult /\ ncalls = 0 /\ retried = FALSE
    /\ IdleRetry
    /\ IdleAlt
    /\ IdlePure
    /\ IdleProbe
    /\ IdleMisc
    /\ page = <<>> /\ page0 = <<>> /\ next_id = 1
    /\ heading = T_Draft
    /\ heading_level = 2
    /\ mode = S_append
    /\ find_existing = TRUE
    /\ nblocks = 0
    /\ after_block_id = 0 /\ created_heading = FALSE
    /\ all_children = <<>> /\ next_cursor = 0 /\ delete_slice = <<>>
    /\ batch_start = 0 /\ resp_status = 0
    /\ log = <<>> /\ call_no = 1 /\ log1 = <<>>
    /\ \E held \in [RacePageIds -> RaceContents] :
          cc_pages = [p \in RacePageIds |-> RacePage(p, held[p])]
    /\ cc_page_id \in [Calls -> RacePageIds]
    /\ cc_pc = [c \in Calls |-> "a_locate"]
    /\ cc_after = [c \in Calls |-> 0]
    /\ cc_created = [c \in Calls |-> FALSE]
    /\ cc_next_id = Len(ExampleBlocks) * Cardinality(RacePageIds) + 1
    /\ cc_arrivals = <<>>

NextRace == \E c \in Calls : ConcLocate(c) \/ ConcCreate(c)

SpecRace == InitRace /\ [][NextRace]_vars

SchemaDatabases ==
    { {},
      {Prop(StatusProperty, "status")},
      {Prop(StatusProperty, "select")},
      {Prop(StatusProperty, "rich_text")},
      {Prop(StatusProperty, "rich_text"), Prop(AltName, "status")},
      {Prop(StatusProperty, "status")} \cup {Prop(n, "rich_text") : n \in OutputNames} }

InitMisc ==
    /\ \E t \in {"http_fetch", "tavily_search", "notion_update_database_schema"} :
         InitCall(t)
    /\ token \in BOOLEAN
    /\ IdleRetry
    /\ IdleAlt
    /\ IdlePure
    /\ IdleRace
    /\ IdleProbe
    /\ tavily_key \in BOOLEAN
    /\ ensure_status \in BOOLEAN
    /\ add_output_properties \in BOOLEAN
    /\ db_properties \in SchemaDatabases
    /\ IdleAppend

NextMisc ==
    \/ HttpFetch
    \/ TavilyStart
    \/ TavilyPost
    \/ SchemaStart
    \/ SchemaGet
    \/ SchemaPatch

\* Every tool of the server, one invocation at a time.
Init == InitMisc \/ InitRetry \/ InitProbe \/ InitAppend

Next == NextMisc \/ NextRetry \/ NextProbe \/ NextAppend

Spec == Init /\ [][Next]_vars

(***************************************************************************)
(* The retry wrapper: claims C1-C3 (under SpecRetry).                      *)
(***************************************************************************)
Finished == rr_pc \in {"returned", "raised"}

Requests == {i \in DOMAIN rr_trace : rr_trace[i].ev = "request"}
Sleeps(upto) == {i \in 1..upto : rr_trace[i].ev = "sleep"}
ResponsesAt == {i \in DOMAIN rr_trace : rr_trace[i].ev = "response"}

\* C1: a response whose status is not 429 ends the call: it is the last event
\* of the call, it is the value returned, and no request or sleep follows it;
\* a 429 that is followed by anything is followed by one sleep and then a new
\* request, and fewer than max_retries retries had been made before it.
C1_NonRateLimitNeverRetried ==
    /\ \A i \in ResponsesAt :
         rr_trace[i].resp.status # 429 =>
            /\ i = Len(rr_trace)
            /\ rr_pc = "returned"
            /\ rr_resp = rr_trace[i].resp
    /\ \A i \in ResponsesAt :
         (rr_trace[i].resp.status = 429 /\ i < Len(rr_trace)) =>
            /\ rr_trace[i+1].ev = "sleep"
            /\ Cardinality(Sleeps(i)) < max_retries
            /\ (i + 1 < Len(rr_trace) => rr_trace[i+2].ev = "request")
    /\ \A i \in DOMAIN rr_trace :
         rr_trace[i].ev = "sleep" =>
            /\ i > 1 /\ rr_trace[i-1].ev = "response"
            /\ rr_trace[i-1].resp.status = 429

\* C1's case: a 429 was retried and the retry got an error status that is
\* not 429, which was returned.
C1_Witness ==
    /\ rr_pc = "returned"
    /\ attempt >= 1
    /\ attempt < max_retries
    /\ rr_resp.status = 404

AllRateLimited == \A i \in ResponsesAt : rr_trace[i].resp.status = 429

\* C2: at most max_retries + 1 requests are issued (exactly one when
\* max_retries = 0), consecutive requests are separated by exactly one sleep,
\* and when every response is 429 the call returns the last 429 instead of
\* raising and notion_get_database reports success=false, status=429.
C2_BoundedRequestsAndExhaustionReturns ==
    /\ Cardinality(Requests) <= max_retries + 1
    /\ (Finished /\ max_retries = 0) => Cardinality(Requests) = 1
    /\ \A i, k \in Requests :
         (i < k /\ ~ \E m \in Requests : i < m /\ m < k) =>
            Cardinality({m \in i..k : rr_trace[m].ev = "sleep"}) = 1
    /\ (Finished /\ rr_err # "transport" /\ AllRateLimited) =>
            /\ rr_pc = "returned"
            /\ rr_resp.status = 429
    /\ (pc = "done" /\ token /\ AllRateLimited) =>
            /\ result.success = FALSE
            /\ result.status = 429

\* C3 as stated: every sleep that follows a 429 carrying a Retry-After header
\* lasts exactly the parsed header (base_delay when it does not parse) and
\* does not come from the exponential formula.
C3_Original_AnyHeaderOverridesBackoff ==
    \A i \in DOMAIN rr_trace :
        (rr_trace[i].ev = "sleep" /\ rr_trace[i-1].resp.retry_after.present) =>
            LET h == rr_trace[i-1].resp.retry_after.value
            IN  /\ rr_trace[i].src # "backoff"
                /\ rr_trace[i].d = IF Parses(h) THEN ParseMicros(h)
                                                 ELSE base_delay * 1000

\* C3, amended: the same for a Retry-After header whose value is not empty
\* (Retry-After "2" gives a sleep of exactly 2 s; a value that is no number
\* gives base_delay); an empty value is handled like an absent header, by
\* the exponential formula.
C3_NonEmptyHeaderOverridesBackoff ==
    \A i \in DOMAIN rr_trace :
        rr_trace[i].ev = "sleep" =>
            LET ra == rr_trace[i-1].resp.retry_after
            IN  /\ (ra.present /\ ra.value # <<>>) =>
                      /\ rr_trace[i].src # "backoff"
                      /\ rr_trace[i].d = IF Parses(ra.value)
                                          THEN ParseMicros(ra.value)
                                          ELSE base_delay * 1000
                      /\ (ra.value = <<"2">> => rr_trace[i].d = 2000000)
                /\ (~ra.present \/ ra.value = <<>>) => rr_trace[i].src = "backoff"

\* C3's case: a 429 with Retry-After "2", then a success: one sleep of 2 s
\* and the success response returned.
C3_Witness ==
    /\ rr_pc = "returned"
    /\ rr_resp.status = 200
    /\ Len(rr_trace) = 5
    /\ rr_trace[2].resp.status = 429
    /\ rr_trace[2].resp.retry_after = Header(<<"2">>)
    /\ rr_trace[3] = EvSleep([d |-> 2000000, src |-> "header"])
    /\ rr_trace[4].ev = "request"

(***************************************************************************)
(* Configuration errors and faults: claims C4 and C5 (under Spec).         *)
(***************************************************************************)
NotionTools ==
    {"notion_query_eligible", "notion_update_status", "notion_get_database",
     "notion_update_database_schema", "notion_append_section"}

\* The configuration the invocation needs is missing.
MissingConfig ==
    \/ tool \in NotionTools /\ ~token
    \/ tool = "notion_query_eligible" /\ ~db_given
    \/ tool = "tavily_search" /\ ~tavily_key

\* C4: an invocation whose credential (or, for notion_query_eligible, whose
\* database id; for tavily_search, whose API key) is missing never makes a
\* remote call, never raises, changes nothing on the remote, and what it
\* returns is a failure with success = false and an error message.
C4_ConfigErrorBeforeAnyCall ==
    MissingConfig =>
        /\ ncalls = 0
        /\ rr_trace = <<>> /\ attempts = <<>> /\ log = <<>>
        /\ page = page0
        /\ pc \in {"start", "done"}
        /\ pc = "done" =>
             /\ result.kind = "error"
             /\ result.success = FALSE
             /\ result.error # ""

\* C4's case: notion_append_section in replace mode on the example page has
\* returned the failure for the missing credential.
C4_Witness ==
    /\ tool = "notion_append_section" /\ ~token
    /\ page0 = ExamplePage /\ IsReplace(mode)
    /\ pc = "done" /\ result = TokenError

\* C5: no invocation ends in an exception, and what an invocation returns
\* carries a success flag.
C5_EveryFailureIsReturned ==
    /\ pc # "raised"
    /\ pc = "done" => result.kind \in {"result", "error"}

(***************************************************************************)
(* The capitalization variants: claim C9 (under SpecAlt).                  *)
(***************************************************************************)
\* Every cased character is upper case exactly when it starts a word.
IsTitleCased(s) ==
    \A i \in DOMAIN s :
        IsCased(s[i]) =>
            (IsUpperCh(s[i]) <=> (i = 1 \/ ~IsCased(s[i-1])))

SameLetters(s, t) == Len(s) = Len(t) /\ Lower(s) = Lower(t)

\* val is p up to the case of its letters.
IsCapitalizationOf(val, p) ==
    /\ Len(val) = Len(p)
    /\ \A i \in DOMAIN p : val[i] = p[i] \/ val[i] = UpperCh(p[i])

\* What the claim expects of one copy's result for val.
ExpectedVariants(val, alts) ==
    /\ val \in alts
    /\ IF IsCapitalizationOf(val, S_not_started)
       THEN alts = {val, S_Not_started, S_Not_Started}
       ELSE IF IsCapitalizationOf(val, S_in_progress)
       THEN alts = {val, S_In_progress, S_In_Progress}
       ELSE IF IsCapitalizationOf(val, S_done)
       THEN alts = {val, S_Done}
       ELSE /\ Cardinality(alts \ {val}) <= 1
            /\ \E t \in alts : IsTitleCased(t) /\ SameLetters(t, val)
            /\ \A t \in alts \ {val} : IsTitleCased(t) /\ SameLetters(t, val)

\* C9: for any capitalization of "not started", "in progress" or "done" each
\* copy of _alt_values yields the value and both common capitalizations of
\* the phrase ("Done" for "done"); for any other value it yields the value
\* and its title-cased form only; the two copies return the same set.
C9_VariantsOfBothCopies ==
    /\ (av_query # {} => ExpectedVariants(av_val, av_query))
    /\ (av_update # {} => ExpectedVariants(av_val, av_update))
    /\ (av_query # {} /\ av_update # {} => av_query = av_update)

\* C9's case: both copies were applied to a mixed capitalization of
\* "not started", which is neither of the two common ones.
C9_Witness ==
    /\ av_val = <<"n","O","t"," ","s","T","a","r","t","e","D">>
    /\ av_query = {av_val, S_Not_started, S_Not_Started}
    /\ av_update # {}

(***************************************************************************)
(* The probing: claims C6-C8 (under SpecProbe).                            *)
(***************************************************************************)
Probing == tool \in {"notion_query_eligible", "notion_update_status"}
IsQuery == tool = "notion_query_eligible"
Pref == PreferredKey(property_type)
Fall == FallbackKey(property_type)
Alts == IF IsQuery THEN AltValuesQuery(status_value) ELSE AltValuesUpdate(status_value)
InVariantStage(i) == attempts[i].phase >= 3

\* The exact attempts come first, preferred kind before fallback kind.
ExactStageFirst ==
    /\ \A i \in DOMAIN attempts :
         attempts[i].phase = 1 => i = 1 /\ attempts[i].key = Pref
    /\ \A i \in DOMAIN attempts :
         attempts[i].phase = 2 => i = 2 /\ attempts[i].key = Fall
    /\ \A i \in DOMAIN attempts :
         attempts[i].phase <= 2 => attempts[i].value = status_value
    /\ (attempts # <<>> => attempts[1].phase = 1)

\* C6 as stated: after the two exact attempts, each variant is tried on the
\* preferred kind and then on the fallback kind before the next variant.
C6_Original_VariantByVariant ==
    /\ ExactStageFirst
    /\ \A i \in DOMAIN attempts :
         (InVariantStage(i) /\ i < Len(attempts) /\ attempts[i].key = Pref) =>
            /\ attempts[i+1].key = Fall
            /\ attempts[i+1].value = attempts[i].value

\* C6, amended: (preferred, exact), then (fallback, exact), then (preferred,
\* v) for the capitalization variants v, then (fallback, v) for the
\* capitalization variants v; no attempt of a later step comes before an
\* attempt of an earlier step, and no step tries a variant twice.
C6_KindByKind ==
    /\ ExactStageFirst
    /\ \A i, k \in DOMAIN attempts : i < k => attempts[i].phase <= attempts[k].phase
    /\ \A i \in DOMAIN attempts :
         InVariantStage(i) =>
            /\ attempts[i].key = IF attempts[i].phase = 3 THEN Pref ELSE Fall
            /\ attempts[i].value \in Alts
    /\ \A i, k \in DOMAIN attempts :
         (i < k /\ InVariantStage(i) /\ attempts[i].phase = attempts[k].phase) =>
            attempts[i].value # attempts[k].value

\* C6's case: notion_update_status went through every step for a value with
\* three variants: 2 exact attempts, 3 on the preferred kind, 3 on the other.
C6_Witness ==
    /\ tool = "notion_update_status"
    /\ pc = "done"
    /\ Len(attempts) = 8
    /\ attempts[5].phase = 3
    /\ attempts[6].phase = 4

\* An attempt that ends the probing: 200 (and, for a query, a row).
Succeeded(i) ==
    /\ attempts[i].status = 200
    /\ (IsQuery => attempts[i].rows > 0)

\* C7: the first attempt that succeeds is the last attempt made; the tool
\* then returns success=true with that attempt's status and payload (count
\* = the rows returned); a first attempt that succeeds at once gives exactly
\* one remote request.
C7_StopsAtFirstSuccess ==
    \A i \in DOMAIN attempts :
        Succeeded(i) =>
            /\ i = Len(attempts)
            /\ pc = "done"
            /\ result.success = TRUE
            /\ result.status = 200
            /\ IF IsQuery
               THEN result.payload.id = i /\ result.count = attempts[i].rows
               ELSE result.data.id = i
            /\ (i = 1 /\ ~retried => ncalls = 1)

\* C7's case: a query succeeded on the second capitalization variant it
\* tried on the fallback kind.
C7_Witness ==
    /\ IsQuery
    /\ pc = "done"
    /\ Len(attempts) >= 6
    /\ attempts[Len(attempts)].phase = 4
    /\ attempts[Len(attempts) - 1].phase = 4
    /\ Succeeded(Len(attempts))

\* The canonical title-case spelling of a status phrase.
Canonical(v) ==
    IF Lower(v) = S_not_started THEN S_Not_Started
    ELSE IF Lower(v) = S_in_progress THEN S_In_Progress
    ELSE S_Done

IsStatusPhrase(v) == Lower(v) \in {S_not_started, S_in_progress, S_done}

\* Every answer so far is one the remote of C8 gives: the canonical spelling
\* on the fallback kind is accepted (and matches a row); anything else is
\* rejected or, for a query, matches no row; the same request gets the same
\* answer.
StubAnswers ==
    /\ \A i \in DOMAIN attempts :
        IF attempts[i].key = Fall /\ attempts[i].value = Canonical(status_value)
        THEN attempts[i].status = 200 /\ (IsQuery => attempts[i].rows = 1)
        ELSE \/ attempts[i].status = 400
             \/ IsQuery /\ attempts[i].status = 200 /\ attempts[i].rows = 0
    /\ \A i, k \in DOMAIN attempts :
        (attempts[i].key = attempts[k].key /\ attempts[i].value = attempts[k].value) =>
            /\ attempts[i].status = attempts[k].status
            /\ attempts[i].rows = attempts[k].rows

\* C8: against that remote, for any capitalization of the three phrases and
\* either preferred kind, both tools end with success=true (the query with
\* the matching rows).
C8_MatchesCanonicalOnFallbackKind ==
    (Probing /\ pc = "done" /\ token /\ db_given
        /\ IsStatusPhrase(status_value) /\ StubAnswers) =>
            /\ result.success = TRUE
            /\ (IsQuery => result.count = 1)

(***************************************************************************)
(* The section upsert: claim C10 (under SpecAppend).                       *)
(***************************************************************************)
Appending == tool = "notion_append_section"

\* The first heading of the page, all of it, that has the level and the
\* text asked for (its id, 0 if there is none).
MatchingHeading == FindHeading(page0, HeadingKey(heading_level), heading)

\* The ids of the blocks strictly between that heading and the next heading
\* of any level after it, or the end of the page.
SectionBody ==
    LET body == DeleteSlice(page0, MatchingHeading)
    IN  {body[k].id : k \in DOMAIN body}

LogOf(op) == {i \in DOMAIN log : log[i].op = op}

DeletesIssued == {log[i].arg : i \in LogOf("delete")}

\* C10: when a call in replace mode that looks for an existing heading has
\* returned, and the page held a heading of the level and text asked for, a
\* DELETE was issued for exactly the blocks strictly between that heading and
\* the next heading of any level (or the end of the page), and the first
\* append request placed the new blocks right after that heading.
C10_ReplaceDeletesExactlyTheSection ==
    ( /\ Appending /\ pc = "done" /\ result.kind = "result"
      /\ find_existing /\ IsReplace(mode)
      /\ MatchingHeading # 0 )
    => /\ DeletesIssued = SectionBody
       /\ \A i \in LogOf("append") :
            (\A j \in LogOf("append") : i <= j) => log[i].arg = MatchingHeading

(***************************************************************************)
(* Two invocations in sequence: claim C11 (under SpecTwice).               *)
(***************************************************************************)
\* The blocks of a page that Locate would take for the heading asked for.
Matching(pg) ==
    {i \in DOMAIN pg :
        /\ pg[i].type = HeadingKey(heading_level)
        /\ Strip(pg[i].text) = Strip(heading)}

Cooperative(lg) == \A i \in DOMAIN lg : lg[i].status \in {200, 202}

\* C11: when two invocations in sequence with find_existing, the same heading
\* and the same level have both returned, and the remote answered every
\* request of both with success, the second one issued no heading-creation
\* request, and the page holds exactly one heading block with that text
\* unless it held more than one before the second invocation.
C11_SecondCallFindsTheHeading ==
    ( /\ Appending /\ call_no = 2 /\ pc = "done"
      /\ Cooperative(log1) /\ Cooperative(log) )
    => /\ \A i \in DOMAIN log : log[i].op # "create"
       /\ Cardinality(Matching(page)) >= 1
       /\ Cardinality(Matching(page0)) <= 1 => Cardinality(Matching(page)) = 1

(***************************************************************************)
(* The append step: claims C12-C14 (under SpecAppend).                     *)
(***************************************************************************)
\* The append calls of the invocation, in order.
AppendCalls == LET IsAppend(e) == e.op = "append" IN SelectSeq(log, IsAppend)

\* The anchor: the heading Locate found or the heading creation returned
\* (0 if there is none).
Anchor ==
    LET hits == {i \in DOMAIN log : log[i].op \in {"locate", "create"} /\ log[i].got # 0}
    IN  IF hits = {} THEN 0 ELSE log[CHOOSE i \in hits : \A j \in hits : j <= i].got

\* C12: the append calls carry consecutive batches of at most 50 blocks of
\* the sanitized sequence, in order; the first names the anchor as the block
\* to insert after, each later one the last block the previous call reported
\* as inserted (what the previous call named, if it reported none); and when
\* the tool has returned and every append call succeeded, the new blocks are
\* on the page in the order of the sequence, one after the other, right after
\* the anchor (at the end of the page if there is no anchor).
C12_BatchesInOrderAfterAnchor ==
    Appending =>
        LET A == AppendCalls
            N == SanitizedLen(nblocks)
            p == IF Anchor = 0 THEN Len(page) - N ELSE IndexOfId(page, Anchor)
        IN  /\ \A k \in DOMAIN A :
                 /\ A[k].first = (k - 1) * BatchSize
                 /\ A[k].n = Min(BatchSize, N - A[k].first)
                 /\ A[k].n >= 1 /\ A[k].n <= BatchSize
            /\ A # <<>> => A[1].arg = Anchor
            /\ \A k \in 2..Len(A) :
                 A[k].arg = IF A[k - 1].got # 0 THEN A[k - 1].got ELSE A[k - 1].arg
            /\ (pc = "done" /\ result.kind = "result" /\ Cooperative(A)) =>
                 /\ Len(page) >= p + N
                 /\ \A j \in 1..N : page[p + j].src = j

\* C12's case: 51 blocks went in two batches that both succeeded, in replace
\* mode on the example page, and are between the two headings.
C12_Witness ==
    /\ Appending /\ pc = "done" /\ page0 = ExamplePage /\ IsReplace(mode)
    /\ nblocks = BatchSize + 1
    /\ Len(AppendCalls) = 2 /\ Cooperative(log)
    /\ AppendCalls[1].n = BatchSize /\ AppendCalls[2].n = 1
    /\ AppendCalls[2].arg = AppendCalls[1].got
    /\ Anchor = 1
    /\ page[1].id = 1 /\ page[2].src = 1 /\ page[BatchSize + 2].src = BatchSize + 1
    /\ page[BatchSize + 3].id = 3

Returned == Appending /\ pc = "done" /\ result.kind = "result"

\* C13: when the tool has returned, its last remote call was an append call,
\* the status in the result is the status of that call, and success is true
\* exactly when that status is 200 or 202, whatever the answers to the
\* calls before it were.
C13_SuccessIsTheFinalBatch ==
    Returned =>
        /\ log # <<>> /\ log[Len(log)].op = "append"
        /\ result.status = log[Len(log)].status
        /\ result.success <=> log[Len(log)].status \in {200, 202}

\* C13's case: Locate, the heading creation and the first of two batches
\* failed, the last batch was accepted with 202, and the result says success.
C13_Witness ==
    /\ Returned /\ result.success /\ result.status = 202
    /\ Len(AppendCalls) = 2 /\ AppendCalls[1].status = 404
    /\ \E i \in LogOf("locate") : log[i].status = 502
    /\ \E i \in LogOf("create") : log[i].status = 404

\* Locate recorded an anchor.
Located == \E i \in LogOf("locate") : log[i].got # 0

\* C14: once the tool is past the heading creation, it has issued one
\* heading-creation request if Locate recorded no anchor (it was not run, it
\* failed, or it found no matching heading) and none if it did; Locate is
\* not run without find_existing; and appended_under_existing in the result
\* is true exactly when Locate recorded the anchor, so it is false whenever
\* a heading creation was attempted.
C14_CreatesHeadingIffNotLocated ==
    Appending =>
        /\ Cardinality(LogOf("create")) <= 1
        /\ (Located => LogOf("create") = {})
        /\ (~find_existing => LogOf("locate") = {})
        /\ pc \in {"a_list", "a_delete", "a_batch", "done"} /\ token =>
             Cardinality(LogOf("create")) = IF Located THEN 0 ELSE 1
        /\ Returned =>
             /\ result.appended_under_existing <=> Located
             /\ LogOf("create") # {} => ~result.appended_under_existing

\* C14's case: without find_existing a second "Draft" heading was created
\* on the example page and the result does not say appended_under_existing.
C14_Witness ==
    /\ Returned /\ ~find_existing /\ page0 = ExamplePage
    /\ Cardinality(LogOf("create")) = 1 /\ Anchor = Len(page0) + 1
    /\ Cardinality(Matching(page)) = 2
    /\ ~result.appended_under_existing /\ result.success

(***************************************************************************)
(* C15-C17: _rt, the tokenizer of inline spans (lines 575-638).            *)
(***************************************************************************)
Tokenized == tool = "_rt" /\ pc = "done"

\* The segment a piece stands for: its body, annotated after its kind.
SegmentOf(p) ==
    MkSegment(p.body, p.kind = "bold", p.kind \in {"star", "under"}, p.kind = "code")

MarkerChars == {"*", "_", Backtick}

\* A piece whose body holds no marker character and, in an italic span, no
\* line break.
SimplePiece(p) ==
    /\ \A k \in 1..Len(p.body) : p.body[k] \notin MarkerChars
    /\ p.kind \in {"star", "under"} =>
         \A k \in 1..Len(p.body) : p.body[k] # "\n"

Short(ps) == \A i \in 1..Len(ps) : Len(ps[i].body) <= SegmentLimit

\* The output the spec describes: one segment per piece, in order.
AsDescribed ==
    /\ rt_out = [i \in 1..Len(rt_pieces) |-> SegmentOf(rt_pieces[i])]
    /\ PlainText(rt_out) = Render([i \in 1..Len(rt_pieces) |->
                                     [kind |-> "plain", body |-> rt_pieces[i].body]])

\* C15, as the spec states it: for every text made of spans interleaved
\* with plain runs, the segments are the pieces in order, each span's
\* interior annotated after the span and each plain run unannotated, and
\* their contents joined are the text without the span markers.
C15_EveryMadeTextRoundTrips ==
    (Tokenized /\ rt_pieces # <<>> /\ Short(rt_pieces)) => AsDescribed

\* C15, amended: the same, for the texts whose span interiors and plain
\* runs hold no marker character and whose italic interiors hold no line
\* break.
C15_SimpleTextRoundTrips ==
    (/\ Tokenized /\ rt_pieces # <<>> /\ Short(rt_pieces)
     /\ \A i \in 1..Len(rt_pieces) : SimplePiece(rt_pieces[i]))
    => AsDescribed

\* A bold span between two plain runs, the first with a line break, came out
\* as three segments.
C15_Witness ==
    /\ Tokenized
    /\ Len(rt_pieces) = 3
    /\ rt_pieces[1] = [kind |-> "plain", body |-> <<"a", "\n", "b">>]
    /\ rt_pieces[2].kind = "bold"
    /\ rt_pieces[3].kind = "plain"
    /\ \A i \in 1..3 : SimplePiece(rt_pieces[i])
    /\ Len(rt_out) = 3
    /\ rt_out[2].bold

\* C16: no segment holds more than 2000 characters, and a single run of
\* n > 2000 characters comes out as ceil(n / 2000) segments in a row that all
\* carry the annotations of the run and whose contents joined are the run.
C16_LongRunIsCutInOrder ==
    Tokenized =>
      /\ \A i \in 1..Len(rt_out) : Len(rt_out[i].content) <= SegmentLimit
      /\ (Len(rt_pieces) = 1 /\ Len(rt_pieces[1].body) > SegmentLimit) =>
           LET p == rt_pieces[1]
               n == Len(p.body)
           IN  /\ Len(rt_out) = (n + SegmentLimit - 1) \div SegmentLimit
               /\ \A i \in 1..Len(rt_out) :
                    /\ rt_out[i].bold = SegmentOf(p).bold
                    /\ rt_out[i].italic = SegmentOf(p).italic
                    /\ rt_out[i].code = SegmentOf(p).code
               /\ PlainText(rt_out) = p.body

\* A bold run of 4001 characters came out as three bold segments, the last of
\* one character.
C16_Witness ==
    /\ Tokenized
    /\ Len(rt_pieces) = 1
    /\ rt_pieces[1].kind = "bold"
    /\ Len(rt_pieces[1].body) = 2 * SegmentLimit + 1
    /\ Len(rt_out) = 3
    /\ Len(rt_out[3].content) = 1
    /\ rt_out[3].bold

\* C17: the tokenizer never returns an empty sequence; an empty or missing
\* text gives exactly one segment, of empty content and no annotation.
C17_NeverEmpty ==
    Tokenized =>
      /\ rt_out # <<>>
      /\ rt_text \in {<<>>, NoText} =>
           rt_out = <<MkSegment(<<>>, FALSE, FALSE, FALSE)>>

\* The call with no text returned the one empty segment.
C17_Witness ==
    /\ Tokenized
    /\ rt_text = NoText
    /\ Len(rt_out) = 1
    /\ rt_out[1].content = <<>>

(***************************************************************************)
(* C18: the block-tree builder on a chain of nested list items.            *)
(***************************************************************************)
Built == tool = "build" /\ pc = "done"

IsItem(l) == l.marker # <<>>

\* The unit indent of a content: the least indent of an indented item, 2 if
\* no item is indented.
UnitOf(items) ==
    LET ind == {items[i].indent : i \in {j \in DOMAIN items : IsItem(items[j])}} \ {0}
    IN  IF ind = {} THEN DefaultIndent ELSE CHOOSE u \in ind : \A v \in ind : u <= v

\* A content of list items only, each indented one unit deeper than the one
\* before it.
IsChain(items) ==
    /\ items # <<>>
    /\ \A i \in DOMAIN items : IsItem(items[i])
    /\ \A i \in 1..(Len(items) - 1) :
         items[i + 1].indent = items[i].indent + UnitOf(items)

ItemType(l) ==
    IF l.marker \in {<<"-">>, <<"*">>} THEN "bulleted_list_item"
    ELSE "numbered_list_item"

\* C18: with detect_lists enabled, a content whose items are each indented one
\* unit deeper than the one before gives one top-level list block, whose only
\* child is the second item, whose only child is the third, and so on, each
\* block with the text of its own item.
C18_ChainOfItemsIsAChainOfBlocks ==
    (Built /\ detect_lists /\ IsChain(bt_items)) =>
      /\ Len(bt_out) = Len(bt_items)
      /\ \A i \in 1..Len(bt_out) :
           /\ bt_out[i].parent = i - 1
           /\ bt_out[i].type = ItemType(bt_items[i])
           /\ PlainText(bt_out[i].rich_text) = bt_items[i].text

\* The content "- a", "  - b", "    - c" was built into three blocks, each the
\* parent of the next.
C18_Witness ==
    /\ Built /\ detect_lists
    /\ bt_items = <<Line(0, <<"-">>, <<"a">>), Line(2, <<"-">>, <<"b">>),
                    Line(4, <<"-">>, <<"c">>)>>
    /\ Len(bt_out) = 3
    /\ bt_out[1].parent = 0 /\ bt_out[2].parent = 1 /\ bt_out[3].parent = 2
    /\ PlainText(bt_out[3].rich_text) = <<"c">>

(***************************************************************************)
(* C19: the listing of the replace step.                                   *)
(***************************************************************************)
\* The listing requests of the invocation so far.
Listings == LogOf("list")

\* C19, the part on the listing: whatever the remote answers, no listing
\* request of an invocation asks again for a page of results (a start cursor)
\* that an earlier listing request of the same invocation asked for.
C19_NoPageOfResultsFetchedTwice ==
    Appending =>
      \A i, j \in Listings : i < j => log[i].arg # log[j].arg

(***************************************************************************)
(* C20: the range of the exponential delay.                                *)
(***************************************************************************)
\* The sleeps that follow a 429 without a Retry-After header.
BackoffSleeps ==
    {i \in DOMAIN rr_trace : /\ rr_trace[i].ev = "sleep"
                             /\ rr_trace[i - 1].resp.status = 429
                             /\ ~rr_trace[i - 1].resp.retry_after.present}

\* min(max_delay, base_delay * 2^k), in milliseconds.
CappedDelay(k) == Min(max_delay, base_delay * Pow2(k))

\* C20: the delay slept after a 429 without a Retry-After header, before retry
\* number k (the number of retries made before it), is at least 0.8 m and at
\* most 1.2 m, for m = min(max_delay, base_delay * 2^k).
C20_BackoffWithinJitterRange ==
    \A i \in BackoffSleeps :
        LET k == Cardinality(Sleeps(i - 1))
        IN  /\ rr_trace[i].d >= 800 * CappedDelay(k)
            /\ rr_trace[i].d <= 1200 * CappedDelay(k)

\* Two 429 answers without the header, max_delay of 1 s: the second sleep, of
\* retry number 1, is cut to max_delay (base_delay * 2 is 1.2 s) and lasts
\* exactly 1 s with the jitter factor 1.0.
C20_Witness ==
    /\ max_delay = 1000
    /\ \E i \in BackoffSleeps :
         /\ Cardinality(Sleeps(i - 1)) = 1
         /\ Sleeps(i - 1) \subseteq BackoffSleeps
         /\ base_delay * 2 > max_delay
         /\ rr_trace[i].d = 1000 * max_delay

(***************************************************************************)
(* C21: the cap of the exponential delay.                                  *)
(***************************************************************************)
\* C21, as the spec states it: no sleep that follows a 429 without a
\* Retry-After header is longer than max_delay.
C21_Original_NoBackoffLongerThanMaxDelay ==
    \A i \in BackoffSleeps : rr_trace[i].d <= 1000 * max_delay

\* C21, amended: the cap is applied before the jitter, so no such sleep is
\* longer than 1.2 times max_delay.
C21_BackoffAtMostJitteredCap ==
    \A i \in BackoffSleeps : rr_trace[i].d <= 1200 * max_delay

\* A sleep without a header that lasted longer than max_delay: the cap was
\* reached and the jitter factor was above 1.
C21_Witness ==
    \E i \in BackoffSleeps :
        /\ base_delay * Pow2(Cardinality(Sleeps(i - 1))) > max_delay
        /\ rr_trace[i].d > 1000 * max_delay
        /\ rr_trace[i].d <= 1200 * max_delay

(***************************************************************************)
(* C22-C24: what the probing returns.                                      *)
(***************************************************************************)
\* The probing went to the remote and returned.
Probed == Probing /\ pc = "done" /\ result.kind = "result"

LastAttempt == attempts[Len(attempts)]

Tried(key, v) ==
    \E i \in DOMAIN attempts : attempts[i].key = key /\ attempts[i].value = v

\* C22: whenever the probing returns success=false, every combination of the
\* preferred and the fallback kind with the exact value and with every
\* capitalization variant of it has been attempted against the remote.
C22_FailureOnlyAfterAllCombinations ==
    (Probed /\ ~result.success) =>
        \A key \in {Pref, Fall} : \A v \in {status_value} \cup Alts : Tried(key, v)

\* C23: on failure the status and the payload returned are those of the last
\* remote attempt (the query returns the payload as notion_error).
C23_FailureReturnsLastAttempt ==
    (Probed /\ ~result.success) =>
        /\ attempts # <<>>
        /\ result.status = LastAttempt.status
        /\ result.status = status_code
        /\ IF IsQuery
           THEN result.notion_error /\ result.payload.id = Len(attempts)
           ELSE result.data.id = Len(attempts)

\* notion_update_status failed after all its attempts, the last answer (502,
\* no JSON) differing from the first (400): the result carries the last one.
C23_Witness ==
    /\ Probed /\ ~IsQuery /\ ~result.success
    /\ Len(attempts) >= 4
    /\ attempts[1].status = 400
    /\ LastAttempt.status = 502
    /\ result.status = 502
    /\ result.data.raw
    /\ result.data.id = Len(attempts)

\* The characters of a property kind.
KeyText(key) == IF key = "select" THEN PT_select ELSE PT_status

\* What a result says about a kind and a value: the debug entry of the query,
\* when there is one; the result of the update has no such entry.
Stated ==
    IF IsQuery /\ result.debug.present
    THEN {<<result.debug.tried_property_type_preference, result.debug.status_value>>}
    ELSE {}

\* C24: on success the result states the property kind and the capitalization
\* variant of the attempt that worked.
C24_SuccessStatesKindAndVariant ==
    (Probed /\ result.success) =>
        <<KeyText(LastAttempt.key), LastAttempt.value>> \in Stated

(***************************************************************************)
(* C25: Locate.                                                            *)
(***************************************************************************)
\* The first direct child of the page, in page order, that is a heading of
\* the level asked for with the text asked for, both trimmed (its id, 0 if
\* the page has none).
FirstMatching ==
    IF Matching(page0) = {} THEN 0
    ELSE page0[CHOOSE i \in Matching(page0) : \A j \in Matching(page0) : i <= j].id

\* C25: a Locate that the remote answered records as anchor the first direct
\* child of the page that is a heading of the level asked for with the text
\* asked for (never a heading of another level or a block of another type);
\* and whenever the page has such a child, it is found and no heading is
\* created.
C25_LocateFindsTheFirstMatchingChild ==
    Appending =>
      \A i \in LogOf("locate") :
        log[i].status = 200 =>
          /\ log[i].got = FirstMatching
          /\ Matching(page0) # {} => LogOf("create") = {}

(***************************************************************************)
(* C26: the body that replace mode deletes.                                *)
(***************************************************************************)
\* The page when the replace step listed it: the page of the start, and the
\* heading the tool created, if it created one.
PageListed ==
    LET made == {i \in LogOf("create") : log[i].got # 0}
    IN  IF made = {} THEN page0
        ELSE Append(page0, Block(log[CHOOSE i \in made : TRUE].got,
                                 HeadingKey(heading_level),
                                 PlainText(Rt(heading)), 0))

\* Every listing request was answered with a page of results and, when it
\* reported more, with the cursor of the next one.
ListedWhole ==
    \A i \in LogOf("list") :
        log[i].status = 200 /\ (log[i].got = 1 => log[i].first # 0)

\* The call has returned from a replace of the section of an anchor, having
\* listed the page whole and with every DELETE accepted.
Replaced ==
    /\ Returned /\ IsReplace(mode) /\ Anchor # 0 /\ ListedWhole
    /\ \A i \in LogOf("delete") : log[i].status = 200

\* The ids of the blocks after the anchor that come before every block that
\* satisfies Bound(anchor block, block).
BodyUpTo(Bound(_, _)) ==
    LET pg == PageListed
        p == CHOOSE i \in DOMAIN pg : pg[i].id = Anchor
    IN  {pg[k].id : k \in {m \in (p + 1)..Len(pg) :
                             \A j \in (p + 1)..m : ~Bound(pg[p], pg[j])}}

AnyHeading(a, b) == b.type \in HeadingTypes

EqualOrHigherHeading(a, b) ==
    b.type \in HeadingTypes /\ HeadingRank(b.type) <= HeadingRank(a.type)

\* C26, as the spec states it: the blocks deleted are those after the anchor
\* heading up to, but excluding, the next heading of equal or higher rank.
C26_Original_BodyEndsAtEqualOrHigherRank ==
    Replaced =>
        /\ DeletesIssued = BodyUpTo(EqualOrHigherHeading)
        /\ \A k \in DOMAIN page : page[k].id \notin BodyUpTo(EqualOrHigherHeading)

\* C26, amended: the blocks deleted are those after the anchor heading up to,
\* but excluding, the next heading of any level (or the end of the page).
C26_BodyEndsAtNextHeading ==
    Replaced =>
        /\ DeletesIssued = BodyUpTo(AnyHeading)
        /\ \A k \in DOMAIN page : page[k].id \notin BodyUpTo(AnyHeading)

\* A replace under the first level-2 "Draft" heading of the mixed page: the
\* two paragraphs before the level-3 heading were deleted, the level-3
\* heading and the paragraph after it are still on the page.
C26_Witness ==
    /\ Replaced /\ page0 = MixedPage /\ Anchor = 3
    /\ DeletesIssued = {4, 5}
    /\ \E k \in DOMAIN page : page[k].id = 6
    /\ \E k \in DOMAIN page : page[k].id = 7

(***************************************************************************)
(* C27: the deletes of replace mode are best-effort.                       *)
(***************************************************************************)
\* The DELETE requests that the remote answered with a status other than 200.
FailedDeletes == {i \in LogOf("delete") : log[i].status \notin {0, 200}}

\* C27: a DELETE answered with a failure status does not end the deletes: the
\* request after it is the DELETE of the next block of the body or, after
\* the last block, the first append request; once the tool is past the
\* deletes a DELETE has been issued for every block of the body, whatever the
\* answers were; and the call that returns has issued its append requests.
C27_FailedDeleteDoesNotAbort ==
    Appending =>
      /\ \A i \in FailedDeletes :
           /\ i < Len(log) => log[i + 1].op \in {"delete", "append"}
           /\ i = Len(log) => pc \in {"a_delete", "a_batch"}
      /\ (pc \in {"a_batch", "done"} /\ token /\ IsReplace(mode) /\ Anchor # 0
             /\ ListedWhole)
           => DeletesIssued = BodyUpTo(AnyHeading)
      /\ (Returned /\ FailedDeletes # {}) => AppendCalls # <<>>

\* The first of the two paragraphs of a section could not be deleted (404),
\* the second was deleted, the blocks were appended and the call returned;
\* the first paragraph is still on the page.
C27_Witness ==
    /\ Returned /\ page0 = MixedPage /\ Anchor = 3
    /\ DeletesIssued = {4, 5}
    /\ \E i \in FailedDeletes : log[i].arg = 4 /\ log[i].status = 404
    /\ \E i \in LogOf("delete") : log[i].arg = 5 /\ log[i].status = 200
    /\ \E k \in DOMAIN page : page[k].id = 4
    /\ \A k \in DOMAIN page : page[k].id # 5
    /\ AppendCalls # <<>>
    /\ result.success

(***************************************************************************)
(* C28: partial failures.                                                  *)
(***************************************************************************)
\* The id of the heading this call created, 0 if it created none.
CreatedHeading ==
    LET made == {i \in LogOf("create") : log[i].got # 0}
    IN  IF made = {} THEN 0 ELSE log[CHOOSE i \in made : TRUE].got

\* The append requests that the remote answered with a failure status.
FailedAppends == {i \in LogOf("append") : log[i].status \notin {0, 200, 202}}

\* No DELETE names the heading this call created or a block it appended.
NoRollback ==
    \A i \in LogOf("delete") :
        /\ log[i].arg # CreatedHeading
        /\ \A k \in DOMAIN page : page[k].src # 0 => log[i].arg # page[k].id

\* C28: when the call has created the heading and one of its append requests
\* failed, the result it returns reports a failure, no DELETE was issued for
\* the heading or for a block appended by an earlier request, and the heading
\* is still on the page.
C28_PartialFailureReportedNotRolledBack ==
    (Returned /\ CreatedHeading # 0 /\ FailedAppends # {}) =>
        /\ ~result.success
        /\ NoRollback
        /\ OnPage(page, CreatedHeading)
(***************************************************************************)
(* C29.  Two invocations of notion_append_section with the same heading   *)
(* and find_existing=true, running at the same time.                       *)
(***************************************************************************)
\* Every invocation has left Locate and the creation of the heading behind.
BothAnchored == \A c \in Calls : cc_pc[c] = "anchored"

AllAnswered200 == \A i \in DOMAIN cc_arrivals : cc_arrivals[i].status = 200

Arrived(op) == {i \in DOMAIN cc_arrivals : cc_arrivals[i].op = op}

\* The ids of the headings the invocations created.
CreatedIds == {cc_arrivals[i].got : i \in {k \in Arrived("create") : cc_arrivals[k].got # 0}}

\* The page as it was before the invocations: they delete nothing here.
Before(p) == LET Old(b) == b.id \notin CreatedIds IN SelectSeq(cc_pages[p], Old)

\* The headings of a page that Locate would take for the heading asked for.
SameHeading(pg) ==
    {k \in DOMAIN pg : /\ pg[k].type = HeadingKey(heading_level)
                       /\ Strip(pg[k].text) = Strip(heading)}

\* The types and texts of the blocks of a page, in order.
Shape(pg) == [k \in DOMAIN pg |-> <<pg[k].type, pg[k].text>>]

\* What one invocation alone leaves of a page, every answer being 200.
Alone(pg) ==
    IF SameHeading(pg) # {} THEN pg
    ELSE Append(pg, Block(0, HeadingKey(heading_level), PlainText(Rt(heading)), 0))

\* Both Locate calls reached the remote before any creation of a heading.
LocatesBeforeCreates == \A i \in Arrived("locate"), j \in Arrived("create") : i < j

\* C29: invocations on different pages leave each page as one invocation
\* alone would; on one page, two headings of the same text are created
\* exactly when both Locate calls were answered before either creation
\* arrived, and nothing stops the second creation: each invocation that
\* found no heading creates one.
C29_ConcurrentUpsertsRaceOnOnePageOnly ==
    (BothAnchored /\ AllAnswered200) =>
        IF cc_page_id[1] # cc_page_id[2]
        THEN \A c \in Calls :
                Shape(cc_pages[cc_page_id[c]]) = Shape(Alone(Before(cc_page_id[c])))
        ELSE LET p == cc_page_id[1]
             IN  /\ \A c \in Calls : cc_after[c] # 0 /\ OnPage(cc_pages[p], cc_after[c])
                 /\ SameHeading(Before(p)) # {} => cc_pages[p] = Before(p)
                 /\ SameHeading(Before(p)) = {} =>
                       /\ LocatesBeforeCreates <=> Cardinality(SameHeading(cc_pages[p])) = 2
                       /\ ~LocatesBeforeCreates <=> Cardinality(SameHeading(cc_pages[p])) = 1

\* Both invocations ran on one page that held no such heading, both Locate
\* calls found none, both created one: the page holds two headings of the
\* same text.
C29_Witness ==
    /\ BothAnchored /\ AllAnswered200
    /\ cc_page_id[1] = cc_page_id[2]
    /\ SameHeading(Before(cc_page_id[1])) = {}
    /\ \A c \in Calls : cc_created[c]
    /\ cc_after[1] # cc_after[2]
    /\ \E i, j \in DOMAIN cc_pages[cc_page_id[1]] :
          /\ i < j
          /\ cc_pages[cc_page_id[1]][i].type = cc_pages[cc_page_id[1]][j].type
          /\ cc_pages[cc_page_id[1]][i].text = cc_pages[cc_page_id[1]][j].text
          /\ cc_pages[cc_page_id[1]][i].text = heading

(***************************************************************************)
(* C30.  The order of the remote requests of one invocation.               *)
(***************************************************************************)
\* The phase a remote request belongs to.
Phase(op) ==
    IF op = "locate" THEN 1 ELSE IF op = "create" THEN 2
    ELSE IF op = "list" THEN 3 ELSE IF op = "delete" THEN 4 ELSE 5

\* C30: the requests of an invocation come phase by phase: the Locate GET
\* (one at most), then the creation of the heading (one at most), then the
\* listing GETs of replace, then the DELETEs, then the append calls; after
\* the first append call there is no DELETE and no listing.
C30_RequestsComeInPhaseOrder ==
    Appending =>
        /\ \A i, j \in DOMAIN log : i < j => Phase(log[i].op) <= Phase(log[j].op)
        /\ Cardinality(LogOf("locate")) <= 1
        /\ Cardinality(LogOf("create")) <= 1
        /\ \A i \in LogOf("append"), j \in LogOf("delete") \cup LogOf("list") : j < i

\* An invocation that has returned after a Locate GET, a listing, several
\* DELETEs and several append calls.
C30_Witness ==
    /\ Returned
    /\ \A op \in {"locate", "list", "delete", "append"} : LogOf(op) # {}
    /\ Cardinality(LogOf("delete")) > 1
    /\ Cardinality(LogOf("append")) > 1
(***************************************************************************)
(* C31.  When a DELETE is issued.                                          *)
(***************************************************************************)
\* The invocation has an anchor: Locate found the heading or the creation
\* of the heading gave its id.
Anchored == Located \/ CreatedHeading # 0

\* Every block the page held at the invocation is still on it.
NothingDeleted == \A k \in DOMAIN page0 : OnPage(page, page0[k].id)

\* C31: a DELETE is issued only in replace mode (in any case of letters)
\* with an anchor found or created; in append mode, and when the creation
\* of the heading failed, no block of the page is deleted.
C31_DeleteOnlyInReplaceWithAnchor ==
    Appending =>
        /\ LogOf("delete") # {} => IsReplace(mode) /\ Anchored
        /\ (~IsReplace(mode) \/ ~Anchored) => NothingDeleted

\* A replace invocation on a page with blocks whose Locate found nothing and
\* whose creation of the heading failed: it returned, no block is gone.
C31_Witness ==
    /\ Returned /\ IsReplace(mode) /\ ~Anchored
    /\ LogOf("create") # {}
    /\ page0 # <<>> /\ page = page0
(***************************************************************************)
(* C32.  Append mode under an existing heading (under SpecTwice).          *)
(***************************************************************************)
\* The anchor of the first invocation, once it is over.
Anchor1 ==
    LET hits == {i \in DOMAIN log1 : log1[i].op \in {"locate", "create"} /\ log1[i].got # 0}
    IN  IF hits = {} THEN 0 ELSE log1[CHOOSE i \in hits : \A j \in hits : j <= i].got

\* The id the remote gave to the block made from sanitized[j - 1], by the
\* append calls of a log (0 if no call carried it with success).
InsertedId(lg, j) ==
    LET hits == {i \in DOMAIN lg : /\ lg[i].op = "append" /\ lg[i].got # 0
                                   /\ lg[i].first < j /\ j <= lg[i].first + lg[i].n}
    IN  IF hits = {} THEN 0
        ELSE LET e == lg[CHOOSE i \in hits : TRUE] IN e.got - (e.first + e.n - j)

\* C32: an append-mode invocation whose Locate found the heading, every
\* request answered with success, leaves the page as it was with the new
\* blocks, in their order, right after the heading and ahead of what the
\* section held; so after two such invocations in sequence under the same
\* heading the page reads: heading, blocks of the second, blocks of the first.
C32_AppendGoesRightAfterTheHeading ==
    (Returned /\ ~IsReplace(mode) /\ Located /\ Cooperative(log)) =>
        LET h == IndexOfId(page, Anchor)
            N == SanitizedLen(nblocks)
        IN  /\ h # 0 /\ Len(page) = Len(page0) + N
            /\ \A k \in 1..h : page[k] = page0[k]
            /\ \A j \in 1..N : page[h + j].src = j
            /\ \A k \in (h + 1)..Len(page0) : page[k + N] = page0[k]
            /\ (call_no = 2 /\ Cooperative(log1) /\ Anchor1 = Anchor) =>
                  \A j \in 1..N : /\ InsertedId(log1, j) # 0
                                  /\ page[h + N + j].id = InsertedId(log1, j)

\* Two append-mode invocations with two blocks each on the example page: the
\* heading is followed by the two blocks of the second invocation, then the
\* two of the first, then the paragraph the section held.
C32_Witness ==
    /\ Returned /\ call_no = 2 /\ ~IsReplace(mode) /\ Located
    /\ Cooperative(log) /\ Cooperative(log1) /\ Anchor1 = Anchor /\ Anchor = 1
    /\ Len(page) = Len(ExamplePage) + 4
    /\ page[2].src = 1 /\ page[3].src = 2
    /\ page[4].id = InsertedId(log1, 1) /\ page[5].id = InsertedId(log1, 2)
    /\ page[4].id # 0 /\ page[4].id < page[2].id
    /\ page[6] = ExamplePage[2]
(***************************************************************************)
(* C33.  There is always an append call.                                   *)
(***************************************************************************)
\* Contents that are empty or hold blank lines only, as lists of lines.
BlankContents == {<<>>, << <<>> >>, << <<" ">>, <<>> >>, << <<" ", " ">>, <<"\t">> >>}

\* A paragraph block with one text segment that is empty.
Placeholder ==
    Dict("paragraph", "paragraph", <<MkSegment(<<>>, FALSE, FALSE, FALSE)>>, FALSE, <<>>)

\* C33: with a credential, an invocation that returns has issued at least
\* one append call and the status of its result is the status of the last
\* one; for a content that is empty or blank the sanitized list is one
\* placeholder paragraph, sent in one append call, in replace mode after the
\* DELETEs of the old body.
C33_AlwaysAnAppendCall ==
    (Appending /\ token /\ pc = "done") =>
        /\ Returned
        /\ AppendCalls # <<>>
        /\ result.status = AppendCalls[Len(AppendCalls)].status
        /\ \A lines \in BlankContents, d \in BOOLEAN :
              Sanitized(BuildBlocks(lines, d)) = <<Placeholder>>
        /\ nblocks = 0 =>
              /\ Len(AppendCalls) = 1
              /\ AppendCalls[1].n = Len(Sanitized(<<>>)) /\ AppendCalls[1].n = 1
              /\ \A i \in LogOf("delete"), j \in LogOf("append") : i < j
              /\ RemoteOk([raised |-> FALSE, status |-> AppendCalls[1].status]) =>
                    Cardinality({k \in DOMAIN page : page[k].src # 0}) = 1

\* A replace invocation with an empty content on the example page: the old
\* paragraph of the section was deleted, then one block was appended.
C33_Witness ==
    /\ Returned /\ token /\ nblocks = 0 /\ IsReplace(mode) /\ page0 = ExamplePage
    /\ LogOf("delete") # {} /\ Len(AppendCalls) = 1 /\ result.success
    /\ Len(page) = Len(page0)
    /\ page[1].id = 1 /\ page[2].src = 1 /\ page[3].id = 3
(***************************************************************************)
(* C34-C36: where the builder attaches a list item (under SpecBuild).      *)
(***************************************************************************)
\* The lines of the content that are list items, paragraph text, blank.
ItemLines == {k \in DOMAIN bt_items : IsItem(bt_items[k])}
TextLines == {k \in DOMAIN bt_items : ~IsItem(bt_items[k]) /\ bt_items[k].text # <<>>}
BlankLines == {k \in DOMAIN bt_items : ~IsItem(bt_items[k]) /\ bt_items[k].text = <<>>}

\* The builder after the first k lines of the content.
After(k) ==
    BuildFrom(BuildStart, SubSeq(bt_lines, 1, k), detect_lists, IndentSize(bt_lines))

\* The block made for the list item of line k.
BlockOf(k) == Len(After(k).body)

\* level = floor(indent_length / unit)
LevelOf(k) == bt_items[k].indent \div UnitOf(bt_items)

\* The list items before line k that are open at line k: no line of
\* paragraph text lies between them and line k.
OpenBefore(k) ==
    {j \in ItemLines : j < k /\ \A i \in TextLines : ~(j < i /\ i < k)}

\* The nearest open item before line k of a level strictly smaller than
\* that of line k (0 if there is none).
NearestShallower(k) ==
    LET c == {j \in OpenBefore(k) : LevelOf(j) < LevelOf(k)}
    IN  IF c = {} THEN 0 ELSE CHOOSE j \in c : \A i \in c : i <= j

\* C34: each list item is the last child of the nearest open item before it
\* of a strictly smaller level, a top-level block if there is none, the
\* level being the indent divided by the least nonzero indent of the list
\* lines (2 if none); after each insertion the levels of the stack increase
\* strictly from bottom to top and the top is the item just inserted.
C34_ItemGoesUnderNearestShallowerOpenItem ==
    (Built /\ detect_lists) =>
        \A k \in ItemLines :
            LET st == After(k)
                me == BlockOf(k)
                up == NearestShallower(k)
            IN  /\ me >= 1 /\ bt_out[me] = st.body[me]
                /\ bt_out[me].type = ItemType(bt_items[k])
                /\ bt_out[me].parent = IF up = 0 THEN 0 ELSE BlockOf(up)
                /\ \A i \in DOMAIN st.body : st.body[i].parent = st.body[me].parent => i <= me
                /\ st.list_stack # <<>>
                /\ st.list_stack[Len(st.list_stack)] = [level |-> LevelOf(k), block |-> me]
                /\ \A i \in 1..(Len(st.list_stack) - 1) :
                      st.list_stack[i].level < st.list_stack[i + 1].level

\* The content "- a", "    - c", "  - b": the third item, of level 1, is not
\* put under the second, of level 2, but under the first.
C34_Witness ==
    /\ Built /\ detect_lists
    /\ bt_items = <<Line(0, <<"-">>, <<"a">>), Line(4, <<"-">>, <<"c">>),
                    Line(2, <<"-">>, <<"b">>)>>
    /\ Len(bt_out) = 3
    /\ bt_out[1].parent = 0 /\ bt_out[2].parent = 1 /\ bt_out[3].parent = 1
    /\ After(3).list_stack = <<[level |-> 0, block |-> 1], [level |-> 1, block |-> 3]>>
\* C35: a list item that follows a blank line is not the child of a list
\* item that precedes that blank line.
C35_BlankLineClosesTheList ==
    (Built /\ detect_lists) =>
        \A j, k \in ItemLines, b \in BlankLines :
            (j < b /\ b < k) => bt_out[BlockOf(k)].parent # BlockOf(j)

\* C35 where paragraph text was accumulated before the blank line.
C35_AfterParagraphText ==
    (Built /\ detect_lists) =>
        \A j, k \in ItemLines, b \in BlankLines :
            (j < b /\ b < k /\ \E t \in TextLines : j < t /\ t < k) =>
                bt_out[BlockOf(k)].parent # BlockOf(j)
\* The lines of paragraph text that directly follow a list item.
TextAfterItem == {t \in TextLines : t - 1 \in ItemLines}

\* The block the paragraph text that starts at line t was put into first.
ParagraphOf(t) == Len(After(t - 1).body) + 1

\* The first list item after line t (0 if there is none).
NextItem(t) ==
    LET later == {k \in ItemLines : k > t}
    IN  IF later = {} THEN 0 ELSE CHOOSE k \in later : \A i \in later : k <= i

\* C36 as stated: every list item that comes after a line of paragraph text
\* that follows a list is a top-level block.
C36_Original_EveryLaterItemIsTopLevel ==
    (Built /\ detect_lists) =>
        \A t \in TextAfterItem, k \in ItemLines :
            k > t => bt_out[BlockOf(k)].parent = 0

\* C36: a line of paragraph text that directly follows a list item gives a
\* top-level paragraph block after the blocks of the list; the first list
\* item after it is a top-level block whatever its indent, and no list item
\* after it is a child of a list item before it.
C36_ParagraphLineClosesTheList ==
    (Built /\ detect_lists) =>
        \A t \in TextAfterItem :
            /\ ParagraphOf(t) \in DOMAIN bt_out
            /\ bt_out[ParagraphOf(t)].type = "paragraph"
            /\ bt_out[ParagraphOf(t)].parent = 0
            /\ LET text == PlainText(bt_out[ParagraphOf(t)].rich_text)
                   n == Min(Len(text), Len(bt_items[t].text))
               IN  n >= 1 /\ SubSeq(text, 1, n) = SubSeq(bt_items[t].text, 1, n)
            /\ \A j \in ItemLines : j < t => BlockOf(j) < ParagraphOf(t)
            /\ NextItem(t) # 0 => bt_out[BlockOf(NextItem(t))].parent = 0
            /\ \A k \in ItemLines : k > t =>
                  /\ ParagraphOf(t) < BlockOf(k)
                  /\ \A j \in ItemLines : j < t => bt_out[BlockOf(k)].parent # BlockOf(j)

\* The content "- a", "  - b", "t", "    - c", "", "t": the item c, four
\* spaces deep, is a top-level block after the paragraph.
C36_Witness ==
    /\ Built /\ detect_lists
    /\ Len(bt_items) = 6 /\ TextAfterItem = {3} /\ NextItem(3) = 4
    /\ bt_items[4].indent = 4
    /\ Len(bt_out) = 5
    /\ bt_out[2].parent = 1 /\ bt_out[3].type = "paragraph"
    /\ bt_out[4].type = "bulleted_list_item" /\ bt_out[4].parent = 0
(***************************************************************************)
(* C37.  The reading order of the tree built.                              *)
(***************************************************************************)
\* The texts of a list of blocks, parent before children, children in order.
RECURSIVE PreOrder(_)
PreOrder(blocks) ==
    IF blocks = <<>> THEN <<>>
    ELSE <<PlainText(Head(blocks).rich_text)>>
         \o PreOrder(Head(blocks).children) \o PreOrder(Tail(blocks))

RECURSIVE Concat(_)
Concat(seqs) == IF seqs = <<>> THEN <<>> ELSE Head(seqs) \o Concat(Tail(seqs))

\* A text without its whitespace and without the characters the tokenizer
\* of inline spans may take for markers.
Squeeze(s) ==
    LET Inked(c) == c \notin Whitespace \cup MarkerChars IN SelectSeq(s, Inked)

\* What a line of the content is to be read as: the text of a list item,
\* the whole line otherwise.
ReadAs(l, detect) == IF detect /\ IsItem(l) THEN l.text ELSE LineText(l)

\* C37: the texts of the blocks built, parent before children and children
\* in order, read one after the other, are the lines of the content read in
\* order (a list item without its marker; whitespace and the characters of
\* inline markers left aside): nothing of a line is lost, doubled or moved,
\* with or without detect_lists, the paragraph text pending at the end
\* included.
C37_PreOrderIsReadingOrder ==
    Built =>
        /\ Squeeze(Concat(PreOrder(BodyBlocks(bt_out))))
             = Squeeze(Concat([k \in DOMAIN bt_items |-> ReadAs(bt_items[k], detect_lists)]))
        /\ Len(PreOrder(BodyBlocks(bt_out))) = Len(bt_out)
        /\ \A i \in DOMAIN bt_out : PreOrder(BodyBlocks(bt_out))[i] = PlainText(bt_out[i].rich_text)

\* The content "- a", "  - b", "t", "    - c", "", "t": five blocks, b under
\* a, read as a, b, t, c, t; the last paragraph was pending at the end.
C37_Witness ==
    /\ Built /\ detect_lists
    /\ Len(bt_items) = 6 /\ bt_items[6].text = <<"t">> /\ bt_items[2].indent = 2
    /\ Len(BodyBlocks(bt_out)) = 4
    /\ Len(BodyBlocks(bt_out)[1].children) = 1
    /\ PreOrder(BodyBlocks(bt_out)) = << <<"a">>, <<"b">>, <<"t">>, <<"c">>, <<"t">> >>
(***************************************************************************)
(* C38.  The blocks of the append payloads, after _sanitize.               *)
(***************************************************************************)
\* A block carries the key of its type, a paragraph has no "children", a
\* "children" that is present holds a block, and so for every block below it.
RECURSIVE WellFormed(_)
WellFormed(b) ==
    /\ b.type \in ReqTypes /\ b.key = b.type
    /\ b.type = "paragraph" => ~b.has_children
    /\ b.has_children => b.children # <<>>
    /\ ~b.has_children => b.children = <<>>
    /\ \A i \in DOMAIN b.children : WellFormed(b.children[i])

\* C38: every block of the sanitized list, which the append calls send in
\* batches, is well formed at every depth, and the list holds the blocks
\* built, in their order (one placeholder paragraph if none was built).
C38_SanitizedBlocksAreWellFormed ==
    Built =>
        /\ sanitized # <<>>
        /\ \A i \in DOMAIN sanitized : WellFormed(sanitized[i])
        /\ bt_out # <<>> => PreOrder(sanitized) = PreOrder(BodyBlocks(bt_out))

\* The content "- a", "  - b", "    - c": c was built with an empty
\* "children", which the sanitized c does not carry; a and b keep theirs.
C38_Witness ==
    /\ Built /\ detect_lists /\ Len(bt_out) = 3 /\ Len(sanitized) = 1
    /\ bt_out[3].parent = 2 /\ bt_out[2].parent = 1
    /\ BodyBlocks(bt_out)[1].children[1].children[1].has_children
    /\ sanitized[1].has_children /\ sanitized[1].children[1].has_children
    /\ ~sanitized[1].children[1].children[1].has_children
(***************************************************************************)
(* C39.  Paragraph text.                                                   *)
(***************************************************************************)
\* The lines that are taken for paragraph text: with detect_lists, the
\* lines that are neither blank nor a list item; without, every line that
\* is not blank.
ParaLines == IF detect_lists THEN TextLines ELSE DOMAIN bt_items \ BlankLines

\* The first lines of the maximal runs of such lines, and the last line of
\* the run that starts at line s.
RunStarts == {s \in ParaLines : s - 1 \notin ParaLines}

RunEnd(s) ==
    CHOOSE e \in s..Len(bt_items) :
        /\ \A k \in s..e : k \in ParaLines
        /\ e + 1 \notin ParaLines

\* The lines of the run joined with single spaces, trimmed.
RunText(s) ==
    Strip(Join([k \in 1..(RunEnd(s) - s + 1) |-> bt_lines[s + k - 1]]))

\* ceil(n / 1800)
BlocksFor(n) == (n + ParagraphLimit - 1) \div ParagraphLimit

\* The blocks made for the run that starts at line s.
RunBlocks(s) ==
    SubSeq(bt_out, ParagraphOf(s), ParagraphOf(s) + BlocksFor(Len(RunText(s))) - 1)

\* The number of blocks once the run that starts at line s is flushed.
FlushedLen(s) ==
    IF RunEnd(s) = Len(bt_items) THEN Len(bt_out)
    ELSE Len(After(RunEnd(s) + 1).body)
         - (IF detect_lists /\ RunEnd(s) + 1 \in ItemLines THEN 1 ELSE 0)

MarkerFree(s) == \A k \in DOMAIN s : s[k] \notin MarkerChars

IsCodeSpan(s, i, e) ==
    /\ e > i + 1 /\ s[i] = Backtick /\ s[e] = Backtick
    /\ \A k \in (i + 1)..(e - 1) : s[k] # Backtick

IsBoldSpan(s, i, e) ==
    /\ e >= i + 4 /\ s[i] = "*" /\ s[i + 1] = "*" /\ s[e - 1] = "*" /\ s[e] = "*"
    /\ \A k \in (i + 2)..(e - 2) : s[k] # "*"

IsStarSpan(s, i, e) ==
    /\ e > i + 1 /\ s[i] = "*" /\ s[e] = "*"
    /\ \A k \in (i + 1)..(e - 1) : s[k] \notin {"*", "\n"}

IsUnderSpan(s, i, e) ==
    /\ e > i + 1 /\ s[i] = "_" /\ s[e] = "_"
    /\ \A k \in (i + 1)..(e - 1) : s[k] \notin {"_", "\n"}

CodeStartsAt(s, i) == \E e \in i..Len(s) : IsCodeSpan(s, i, e)
BoldStartsAt(s, i) == \E e \in i..Len(s) : IsBoldSpan(s, i, e)
ItalicStartsAt(s, i) == \E e \in i..Len(s) : IsStarSpan(s, i, e) \/ IsUnderSpan(s, i, e)
SpanStartsAt(s, i) == CodeStartsAt(s, i) \/ BoldStartsAt(s, i) \/ ItalicStartsAt(s, i)

\* The number of annotations of a segment that are set.
Annotations(t) ==
    (IF t.bold THEN 1 ELSE 0) + (IF t.italic THEN 1 ELSE 0) + (IF t.code THEN 1 ELSE 0)

\* The characters of the text a segment stands for, markers included.
SourceLen(t) ==
    Len(t.content) + (IF t.bold THEN 4 ELSE IF t.italic \/ t.code THEN 2 ELSE 0)

\* The position in the text where segment i of the output starts.
RECURSIVE StartOf(_)
StartOf(i) == IF i = 1 THEN 1 ELSE StartOf(i - 1) + SourceLen(rt_out[i - 1])

\* C40: the segments are the text cut from left to right: a span wherever
\* one starts outside a span already taken (code if a code span starts
\* there, else bold, else italic), with its interior as it stands as the
\* content and exactly one annotation; unannotated text in between, in one
\* run, in which no span starts; the next segment starts right after the
\* closing marker.
C40_LeftToRightScanWithoutNesting ==
    (Tokenized /\ Len(OrEmpty(rt_text)) <= SegmentLimit) =>
        LET s == OrEmpty(rt_text)
        IN  /\ StartOf(Len(rt_out) + 1) = Len(s) + 1
            /\ \A i \in DOMAIN rt_out :
                  LET t == rt_out[i]
                      a == StartOf(i)
                      e == StartOf(i + 1) - 1
                  IN  /\ Annotations(t) <= 1
                      /\ Annotations(t) = 0 =>
                            /\ t.content = SubSeq(s, a, e)
                            /\ \A k \in a..e : ~SpanStartsAt(s, k)
                            /\ i > 1 => Annotations(rt_out[i - 1]) = 1
                      /\ Annotations(t) = 1 =>
                            /\ t.code <=> CodeStartsAt(s, a)
                            /\ t.bold <=> ~CodeStartsAt(s, a) /\ BoldStartsAt(s, a)
                            /\ t.code => IsCodeSpan(s, a, e) /\ t.content = SubSeq(s, a + 1, e - 1)
                            /\ t.bold => IsBoldSpan(s, a, e) /\ t.content = SubSeq(s, a + 2, e - 2)
                            /\ t.italic => /\ IsStarSpan(s, a, e) \/ IsUnderSpan(s, a, e)
                                           /\ t.content = SubSeq(s, a + 1, e - 1)

\* The text "_*a*" followed by a code span "b", all within a pair of
\* underscores, came out as one italic segment that holds the asterisks
\* and the backticks as they stand.
C40_Witness ==
    /\ Tokenized
    /\ rt_text = <<"_", "*", "a", "*", Backtick, "b", Backtick, "_">>
    /\ rt_out = <<MkSegment(<<"*", "a", "*", Backtick, "b", Backtick>>, FALSE, TRUE, FALSE)>>

============================================================================
